---------------------------- MODULE Spec2Model ----------------------------
(***************************************************************************)
(* Model of InnerEye/ML/reports/classification_report.py: the per-subject  *)
(* metrics logs (CSV files) on disk and the report functions that read     *)
(* them.                                                                   *)
(*                                                                         *)
(* Conventions                                                             *)
(*  - A CSV file / pandas DataFrame is a sequence of rows (records).       *)
(*  - A float model output or threshold is an integer number of tenths     *)
(*    (0.6 is 6, 1.0 is ScoreUnit); other floats are exact ratios num/den. *)
(*  - Optional[float] is a sequence of length <= 1: << >> is None.         *)
(*  - numpy arrays are 0-based, TLA+ sequences 1-based: index i of the     *)
(*    source is index i+1 here.                                            *)
(***************************************************************************)
EXTENDS Integers, Sequences, FiniteSets, TLC

\* ------------------------------------------------------------------ bounds
\* Rows per file in the partition specification (Spec).
MaxValRows == 2
MaxTestRows == 2
\* Rows of the validation file in the threshold specification (SpecThreshold).
MaxCurveRows == 4
\* Rows over both files in the reading specification (SpecRead).
MaxReadRows == 3
\* Rows per file in the metric specification (SpecMetric).
MaxMetricRows == 2
\* Rows of the test file in the ranking specification (SpecRank).
MaxRankRows == 3
\* Rows of the dataset table (SpecFilepath, SpecLabels, SpecPlot).
MaxDatasetRows == 3
\* Rows of the test file in the plotting specification (SpecPlot).
MaxPlotRows == 2
\* Minibatches and epochs of a training run (SpecScalar).
MaxSteps == 2
MaxEpochs == 1
\* Records per per-subject logger of a worker process (SpecRanks).
MaxWorkerRecords == 1
\* ScalarItem objects in a list of a batch (SpecTransfer).
MaxItems == 2

\* One unit of model output (1.0) in tenths.
ScoreUnit == 10

\* ----------------------------------------------------------- data model
DEFAULT_HUE_KEY == "Default"

None == << >>
Some(x) == <<x>>

NoError == "none"
DuplicateSubjects == "ValueError: Subject IDs should be unique"
RocCurveError == "ValueError: roc_curve"
AssertionError == "AssertionError"

\* One row of a metrics CSV (LoggingColumns).
Row(h, s, o, l, e, d) ==
    [hue |-> h, subject |-> s, model_output |-> o, label |-> l,
     epoch |-> e, data_split |-> d]

\* Results: the four tables.
Results(tp, fp, tn, fn) ==
    [true_positives |-> tp, false_positives |-> fp,
     true_negatives |-> tn, false_negatives |-> fn]

NoResults == Results(<< >>, << >>, << >>, << >>)

\* A float result: nothing, NaN, or the ratio num/den.
NoValue == [kind |-> "none", num |-> 0, den |-> 1]
NaNValue == [kind |-> "nan", num |-> 0, den |-> 1]
Float(n, d) == [kind |-> "float", num |-> n, den |-> d]

\* ------------------------------------------------------------- helpers
Column(df, c) == [i \in 1..Len(df) |-> df[i][c]]

Range(s) == {s[i] : i \in 1..Len(s)}

\* pandas Series.is_unique
is_unique(s) == \A i, j \in 1..Len(s) : i # j => s[i] # s[j]

SetMax(S) == CHOOSE x \in S : \A y \in S : y <= x

\* The distinct values of S in decreasing order.
RECURSIVE Descending(_)
Descending(S) ==
    IF S = {} THEN << >>
    ELSE LET m == SetMax(S) IN <<m>> \o Descending(S \ {m})

\* ------------------------------------------------ read_csv_and_filter_hue
\* Uniqueness checked on the whole file, before the hue is filtered.
read_csv_check_before_filter(csv, hue) ==
    LET df == SelectSeq(csv, LAMBDA r : r.hue = hue)
    IN  IF ~is_unique(Column(csv, "subject"))
        THEN [error |-> DuplicateSubjects, df |-> << >>]
        ELSE [error |-> NoError, df |-> df]

\* Uniqueness checked per epoch.
read_csv_unique_per_epoch(csv, hue) ==
    LET df == SelectSeq(csv, LAMBDA r : r.hue = hue)
    IN  IF ~is_unique([i \in 1..Len(df) |-> <<df[i].subject, df[i].epoch>>])
        THEN [error |-> DuplicateSubjects, df |-> << >>]
        ELSE [error |-> NoError, df |-> df]

read_csv_and_filter_hue(csv, hue) ==
    LET df == SelectSeq(csv, LAMBDA r : r.hue = hue)
    IN  IF ~is_unique(Column(df, "subject"))
        THEN [error |-> DuplicateSubjects, df |-> << >>]
        ELSE [error |-> NoError, df |-> df]


\* ------------------------------------------------- sklearn.metrics.roc_curve
\* Number of samples with label l and score >= t.
CountAtLeast(labels, scores, l, t) ==
    Cardinality({i \in 1..Len(labels) : labels[i] = l /\ scores[i] >= t})

\* roc_curve(y_true, y_score) with its defaults (pos_label=None,
\* drop_intermediate=True).  The rates are kept as counts: fpr[i] is
\* fps[i] / negatives and tpr[i] is tps[i] / positives, NaN when the
\* denominator is 0.  An empty y_true, or one with a class other than 0 and 1,
\* is rejected.
roc_curve(y_true, y_score) ==
    IF Len(y_true) = 0 \/ ~(Range(y_true) \subseteq {0, 1})
    THEN [error |-> RocCurveError, fps |-> << >>, tps |-> << >>,
          thresholds |-> << >>, positives |-> 0, negatives |-> 0]
    ELSE
    LET distinct == Descending(Range(y_score))
        n == Len(distinct)
        tps0 == [i \in 1..n |-> CountAtLeast(y_true, y_score, 1, distinct[i])]
        fps0 == [i \in 1..n |-> CountAtLeast(y_true, y_score, 0, distinct[i])]
        \* drop_intermediate: keep the first, the last and every corner point
        corner(i) == \/ fps0[i + 1] - 2 * fps0[i] + fps0[i - 1] # 0
                     \/ tps0[i + 1] - 2 * tps0[i] + tps0[i - 1] # 0
        keep(i) == n <= 2 \/ i = 1 \/ i = n \/ corner(i)
        idxs == SelectSeq([i \in 1..n |-> i], keep)
        m == Len(idxs)
    IN  [error |-> NoError,
         \* an extra first point (0, 0) whose threshold is thresholds[0] + 1
         fps |-> <<0>> \o [k \in 1..m |-> fps0[idxs[k]]],
         tps |-> <<0>> \o [k \in 1..m |-> tps0[idxs[k]]],
         thresholds |-> <<distinct[1] + ScoreUnit>>
                            \o [k \in 1..m |-> distinct[idxs[k]]],
         positives |-> tps0[n],
         negatives |-> fps0[n]]

\* tpr[i] - fpr[i] times positives * negatives (both non-zero).
Youden(curve, i) ==
    curve.tps[i] * curve.negatives - curve.fps[i] * curve.positives

\* MetricsDict.get_optimal_idx(fpr, tpr): numpy argmax of tpr - fpr, the first
\* index on ties; with a NaN rate every difference is NaN and argmax is the
\* first index.
get_optimal_idx(curve) ==
    IF curve.positives = 0 \/ curve.negatives = 0 THEN 1
    ELSE CHOOSE i \in 1..Len(curve.thresholds) :
            /\ \A j \in 1..Len(curve.thresholds) : Youden(curve, j) <= Youden(curve, i)
            /\ \A j \in 1..(i - 1) : Youden(curve, j) < Youden(curve, i)

\* ------------------------------ get_correct_and_misclassified_examples
\* LabelsAndPredictions: three parallel arrays.
LabelsAndPredictions(ids, labels, outputs) ==
    [subject_ids |-> ids, labels |-> labels, model_outputs |-> outputs]

NoLabelsAndPredictions == LabelsAndPredictions(<< >>, << >>, << >>)

\* What a call leaves behind: the error raised (if any), the threshold it
\* worked with and the value it returned.
Return(threshold, results, value, lap) ==
    [error |-> NoError, optimal_threshold |-> threshold, results |-> results,
     value |-> value, labels_and_predictions |-> lap, found |-> << >>,
     display |-> << >>]

Raise(e) == [error |-> e, optimal_threshold |-> None, results |-> NoResults,
             value |-> NoValue, labels_and_predictions |-> NoLabelsAndPredictions,
             found |-> << >>, display |-> << >>]

predicted_strict(x, optimal_threshold) ==
    IF x.model_output > optimal_threshold THEN 1 ELSE 0

\* lambda x: int(x[ModelOutput] >= optimal_threshold)
predicted(x, optimal_threshold) ==
    IF x.model_output >= optimal_threshold THEN 1 ELSE 0

\* df_test["predicted"] = df_test.apply(...): the frame with the new column.
with_predicted(df, optimal_threshold) ==
    [i \in 1..Len(df) |->
        [hue |-> df[i].hue, subject |-> df[i].subject,
         model_output |-> df[i].model_output, label |-> df[i].label,
         epoch |-> df[i].epoch, data_split |-> df[i].data_split,
         predicted |-> predicted(df[i], optimal_threshold)]]

true_positives(df_test) ==
    SelectSeq(df_test, LAMBDA x : x.predicted = 1 /\ x.label = 1)

false_positives(df_test) ==
    SelectSeq(df_test, LAMBDA x : x.predicted = 1 /\ x.label = 0)

false_negatives_overlapping(df_test) ==
    SelectSeq(df_test, LAMBDA x : x.predicted = 0 /\ x.label = 0)

false_negatives(df_test) ==
    SelectSeq(df_test, LAMBDA x : x.predicted = 0 /\ x.label = 1)

true_negatives(df_test) ==
    SelectSeq(df_test, LAMBDA x : x.predicted = 0 /\ x.label = 0)

\* The first index at which the true positive rate alone is largest.
optimal_threshold_by_tpr(curve) ==
    curve.thresholds[CHOOSE i \in 1..Len(curve.thresholds) :
                        /\ \A j \in 1..Len(curve.thresholds) : curve.tps[j] <= curve.tps[i]
                        /\ \A j \in 1..(i - 1) : curve.tps[j] < curve.tps[i]]

\* optimal_idx = MetricsDict.get_optimal_idx(fpr=fpr, tpr=tpr)
\* optimal_threshold = thresholds[optimal_idx]
optimal_threshold_for_partition(curve) ==
    curve.thresholds[get_optimal_idx(curve)]

get_correct_and_misclassified_examples(val_metrics_csv, test_metrics_csv, hue) ==
    LET val == read_csv_and_filter_hue(val_metrics_csv, hue)
        df_val == val.df
        curve == roc_curve(Column(df_val, "label"), Column(df_val, "model_output"))
        optimal_threshold == optimal_threshold_for_partition(curve)
        test == read_csv_and_filter_hue(test_metrics_csv, hue)
        df_test == with_predicted(test.df, optimal_threshold)
    IN  IF val.error # NoError THEN Raise(val.error)
        ELSE IF curve.error # NoError THEN Raise(curve.error)
        ELSE IF test.error # NoError THEN Raise(test.error)
        ELSE Return(Some(optimal_threshold),
                    Results(true_positives(df_test), false_positives(df_test),
                            true_negatives(df_test), false_negatives(df_test)),
                    NoValue, NoLabelsAndPredictions)

\* ----------------------------------------- get_k_best_and_worst_performing
\* How rows of equal model output are ordered by DataFrame.sort_values with
\* its default kind="quicksort", which is not a stable sort: in the order of
\* the frame, or against it.
TieOrders == {"stable", "reversed"}

\* Sorting that ignores the direction asked for.
sort_values_ascending_only(df, ascending, ties) ==
    LET n == Len(df)
        Before(i, j) ==
            IF df[i].model_output # df[j].model_output
            THEN df[i].model_output < df[j].model_output
            ELSE IF ties = "stable" THEN i < j ELSE i > j
        place(i) == 1 + Cardinality({j \in 1..n : Before(j, i)})
    IN  [p \in 1..n |-> df[CHOOSE i \in 1..n : place(i) = p]]

\* df.sort_values(by=LoggingColumns.ModelOutput.value, ascending=ascending)
sort_values(df, ascending, ties) ==
    LET n == Len(df)
        Before(i, j) ==
            IF df[i].model_output # df[j].model_output
            THEN IF ascending THEN df[i].model_output < df[j].model_output
                 ELSE df[i].model_output > df[j].model_output
            ELSE IF ties = "stable" THEN i < j ELSE i > j
        place(i) == 1 + Cardinality({j \in 1..n : Before(j, i)})
    IN  [p \in 1..n |-> df[CHOOSE i \in 1..n : place(i) = p]]

\* The first k - 1 rows only.
head_one_short(df, k) ==
    SubSeq(df, 1, IF k - 1 < Len(df) THEN k - 1 ELSE Len(df))

\* DataFrame.head(k): the first k rows, and for a negative k all rows but
\* the last -k (df[:k]).
head(df, k) ==
    IF k >= 0 THEN SubSeq(df, 1, IF k < Len(df) THEN k ELSE Len(df))
    ELSE SubSeq(df, 1, IF Len(df) + k > 0 THEN Len(df) + k ELSE 0)

\* sorted = Results(true_positives=....sort_values(...).head(k), ...)
sorted(results, k, ties) ==
    Results(head(sort_values(results.true_positives, FALSE, ties), k),
            head(sort_values(results.false_positives, FALSE, ties), k),
            head(sort_values(results.true_negatives, TRUE, ties), k),
            head(sort_values(results.false_negatives, TRUE, ties), k))

get_k_best_and_worst_performing(val_metrics_csv, test_metrics_csv, k, hue, ties) ==
    LET results == get_correct_and_misclassified_examples(val_metrics_csv,
                                                          test_metrics_csv, hue)
    IN  IF results.error # NoError THEN results
        ELSE Return(results.optimal_threshold, sorted(results.results, k, ties),
                    NoValue, NoLabelsAndPredictions)

\* ------------------------------------------- get_labels_and_predictions
get_labels_and_predictions(csv, hue) ==
    LET read == read_csv_and_filter_hue(csv, hue)
        df == read.df
    IN  IF read.error # NoError THEN Raise(read.error)
        ELSE Return(None, NoResults, NoValue,
                    LabelsAndPredictions(Column(df, "subject"), Column(df, "label"),
                                         Column(df, "model_output")))

\* ------------------------------------------------------------ get_metric
\* ReportedMetrics
OptimalThreshold == "optimal_threshold"
AUC_PR == "auc_pr"
AUC_ROC == "auc_roc"
Accuracy == "accuracy"
FalsePositiveRate == "false_positive_rate"
FalseNegativeRate == "false_negative_rate"

ReportedMetrics == {OptimalThreshold, AUC_PR, AUC_ROC, Accuracy,
                    FalsePositiveRate, FalseNegativeRate}

UnknownMetric == "ValueError: Unknown metric"

\* Python truth of an Optional[float]: None and 0.0 are false.
truthy(optimal_threshold) ==
    optimal_threshold # None /\ optimal_threshold[1] # 0

\* sklearn recall_score(y_true, model_outputs >= threshold, pos_label): the
\* share of the samples of class pos_label that are predicted pos_label, and
\* 0 (with a warning) when there is no such sample.
recall_score(labels, scores, threshold, pos_label) ==
    LET pred(o) == IF o >= threshold THEN 1 ELSE 0
        relevant == Cardinality({i \in 1..Len(labels) : labels[i] = pos_label})
        hit == Cardinality({i \in 1..Len(labels) :
                    labels[i] = pos_label /\ pred(scores[i]) = pos_label})
    IN  IF relevant = 0 THEN Float(0, 1) ELSE Float(hit, relevant)

\* 1 - x
OneMinus(x) == Float(x.den - x.num, x.den)

\* binary_classification_accuracy(model_output, label, threshold): the share
\* of samples whose thresholded output equals the label; the mean of no
\* sample is NaN.
binary_classification_accuracy(model_output, label, threshold) ==
    LET pred(o) == IF o >= threshold THEN 1 ELSE 0
    IN  IF Len(label) = 0 THEN NaNValue
        ELSE Float(Cardinality({i \in 1..Len(label) : pred(model_output[i]) = label[i]}),
                   Len(label))

\* sklearn roc_auc_score for two classes: the share of (positive, negative)
\* pairs ranked correctly, a tie counting one half.
roc_auc_score(labels, scores) ==
    LET pairs == {<<i, j>> \in (1..Len(labels)) \X (1..Len(labels)) :
                    labels[i] = 1 /\ labels[j] = 0}
        won == Cardinality({p \in pairs : scores[p[1]] > scores[p[2]]})
        tied == Cardinality({p \in pairs : scores[p[1]] = scores[p[2]]})
    IN  Float(2 * won + tied, 2 * Cardinality(pairs))

RECURSIVE GCD(_, _)
GCD(a, b) == IF b = 0 THEN a ELSE GCD(b, a % b)

RECURSIVE LCM(_)
LCM(S) ==
    IF S = {} THEN 1
    ELSE LET x == CHOOSE y \in S : TRUE
             r == LCM(S \ {x})
         IN  (x * r) \div GCD(x, r)

\* auc(recall, precision) over sklearn precision_recall_curve(labels, scores):
\* the trapezoidal area under the points (tps[k] / positives,
\* tps[k] / (tps[k] + fps[k])) of the distinct thresholds, in decreasing order,
\* up to the first one of full recall, started from (recall 0, precision 1).
\* Both classes are present.
auc_precision_recall(labels, scores) ==
    LET distinct == Descending(Range(scores))
        tps == [k \in 1..Len(distinct) |-> CountAtLeast(labels, scores, 1, distinct[k])]
        fps == [k \in 1..Len(distinct) |-> CountAtLeast(labels, scores, 0, distinct[k])]
        positives == tps[Len(distinct)]
        last_ind == CHOOSE k \in 1..Len(distinct) :
                        tps[k] = positives /\ \A j \in 1..(k - 1) : tps[j] < positives
        M == LCM({tps[k] + fps[k] : k \in 1..last_ind})
        \* M times the precision of point k (point 0 has precision 1)
        prec(k) == IF k = 0 THEN M ELSE (M \div (tps[k] + fps[k])) * tps[k]
        tp(k) == IF k = 0 THEN 0 ELSE tps[k]
        RECURSIVE area(_)
        area(k) == IF k = 0 THEN 0
                   ELSE area(k - 1) + (tp(k) - tp(k - 1)) * (prec(k) + prec(k - 1))
    IN  Float(area(last_ind), 2 * positives * M)

\* optimal_idx = MetricsDict.get_optimal_idx(fpr=fpr, tpr=tpr)
\* optimal_threshold = thresholds[optimal_idx]
optimal_threshold_for_metric(curve) ==
    curve.thresholds[get_optimal_idx(curve)]

get_metric(val_metrics, test_metrics, metric, optimal_threshold) ==
    LET derive == ~truthy(optimal_threshold)
        curve == roc_curve(val_metrics.labels, val_metrics.model_outputs)
        threshold == IF derive THEN optimal_threshold_for_metric(curve)
                     ELSE optimal_threshold[1]
        labels == test_metrics.labels
        outputs == test_metrics.model_outputs
        only_one_class_present == Cardinality(Range(labels)) < 2
        value ==
            CASE metric = OptimalThreshold -> Float(threshold, ScoreUnit)
              [] metric = AUC_ROC ->
                    IF only_one_class_present THEN NaNValue
                    ELSE roc_auc_score(labels, outputs)
              [] metric = AUC_PR ->
                    IF only_one_class_present THEN NaNValue
                    ELSE auc_precision_recall(labels, outputs)
              [] metric = Accuracy ->
                    binary_classification_accuracy(outputs, labels, threshold)
              [] metric = FalsePositiveRate ->
                    OneMinus(recall_score(labels, outputs, threshold, 0))
              [] metric = FalseNegativeRate ->
                    OneMinus(recall_score(labels, outputs, threshold, 1))
    IN  IF derive /\ curve.error # NoError THEN Raise(curve.error)
        \* assert optimal_threshold
        ELSE IF threshold = 0 THEN Raise(AssertionError)
        ELSE IF metric \notin ReportedMetrics THEN Raise(UnknownMetric)
        ELSE Return(Some(threshold), NoResults, value, NoLabelsAndPredictions)

\* ------------------------------------------------------ the dataset table
\* An empty cell of a CSV read with dtype=str: the float NaN, not a string.
NaN == "nan"

\* One row of dataset.csv: subject, channel, image file and label value.
DatasetRow(s, c, f, l) == [subject |-> s, channel |-> c, filePath |-> f, label |-> l]

\* The table: whether it has the channel column, and its rows.
Dataset(channel_column, rows) == [channel_column |-> channel_column, rows |-> rows]

NoDataset == Dataset(FALSE, << >>)

\* The fields of ScalarModelBase that the lookups read.
Config(image_channels, label_channels) ==
    [image_channels |-> image_channels, label_channels |-> label_channels]

NoConfig == Config(<< >>, << >>)

PathTypeError == "TypeError: expected str, bytes or os.PathLike object, not float"
SingleLabelChannelExpected ==
    "ValueError: Single label channel expected in multilabel datasets"
LabelsInconsistent == "ValueError: Labels inconsistent"

\* A call that returns a list.
Found(list) ==
    [Return(None, NoResults, NoValue, NoLabelsAndPredictions) EXCEPT !.found = list]

\* dataset_dir / Path(filepath)
JoinPath(dataset_dir, filepath) == <<dataset_dir, filepath>>

get_image_filepath_from_subject_id(subject_id, df, config, dataset_dir) ==
    LET in_channels ==
            IF config.image_channels # << >> /\ df.channel_column
            THEN SelectSeq(df.rows, LAMBDA r : r.channel \in Range(config.image_channels))
            ELSE df.rows
        of_subject == SelectSeq(in_channels, LAMBDA r : r.subject = subject_id)
        filepaths == Column(of_subject, "filePath")
    IN  IF \E i \in 1..Len(filepaths) : filepaths[i] = NaN
        THEN Raise(PathTypeError)
        ELSE Found([i \in 1..Len(filepaths) |-> JoinPath(dataset_dir, filepaths[i])])

\* Raises for several label channels whether or not the table has the
\* channel column.
get_image_labels_any_table(subject_id, df, config) ==
    LET in_channel ==
            IF config.label_channels # << >> /\ df.channel_column
            THEN SelectSeq(df.rows, LAMBDA r : r.channel = config.label_channels[1])
            ELSE df.rows
        of_subject == SelectSeq(in_channel, LAMBDA r : r.subject = subject_id)
        labels == Range(Column(of_subject, "label"))
    IN  IF Len(config.label_channels) > 1
        THEN Raise(SingleLabelChannelExpected)
        ELSE IF labels = {} THEN Found(<< >>)
        ELSE IF Cardinality(labels) > 1 THEN Raise(LabelsInconsistent)
        ELSE Found(<<CHOOSE l \in labels : TRUE>>)

\* The list returned holds the one raw label value that the code hands to
\* extract_label_classification to be decoded into class names.
get_image_labels_from_subject_id(subject_id, df, config) ==
    LET several == /\ config.label_channels # << >>
                   /\ df.channel_column
                   /\ Len(config.label_channels) > 1
        in_channel ==
            IF config.label_channels # << >> /\ df.channel_column
            THEN SelectSeq(df.rows, LAMBDA r : r.channel = config.label_channels[1])
            ELSE df.rows
        of_subject == SelectSeq(in_channel, LAMBDA r : r.subject = subject_id)
        labels == Range(Column(of_subject, "label"))
    IN  IF several THEN Raise(SingleLabelChannelExpected)
        ELSE IF labels = {} THEN Found(<< >>)
        ELSE IF Cardinality(labels) > 1 THEN Raise(LabelsInconsistent)
        ELSE Found(<<CHOOSE l \in labels : TRUE>>)


\* ------------------------------------------ plot_k_best_and_worst_performing
\* The directory of dataset.csv.
DatasetDir == "dataset_dir"

\* get_image_outputs_from_subject_id on pd.read_csv(test_metrics_csv,
\* dtype=str): (hue, model output) of every row of the subject.
get_image_outputs_from_subject_id(subject_id, metrics_df) ==
    LET filtered == SelectSeq(metrics_df, LAMBDA r : ToString(r.subject) = subject_id)
    IN  [i \in 1..Len(filtered) |-> <<filtered[i].hue, filtered[i].model_output>>]

\* What plot_image_for_subject prints and plots for one subject, or the
\* error that a lookup raised.
plot_image_for_subject(subject_id, df, dataset_dir, header, config, metrics_df) ==
    LET labels == get_image_labels_from_subject_id(subject_id, df, config)
        filepaths == get_image_filepath_from_subject_id(subject_id, df, config, dataset_dir)
    IN  IF labels.error # NoError THEN [error |-> labels.error, printed |-> << >>]
        ELSE IF filepaths.error # NoError
        THEN [error |-> filepaths.error, printed |-> << >>]
        ELSE [error |-> NoError,
              printed |-> <<[header |-> header, subject_id |-> subject_id,
                             labels |-> labels.found,
                             outputs |-> get_image_outputs_from_subject_id(subject_id,
                                                                           metrics_df),
                             images |-> filepaths.found]>>]

\* The subjects of a table with the header they are plotted under.
Headed(table, header) ==
    [i \in 1..Len(table) |-> [header |-> header, subject |-> table[i].subject]]

\* The loops of plot_k_best_and_worst_performing over the four categories of
\* the ranked results, in the order false positives, false negatives, true
\* positives, true negatives: each subject is printed and plotted in turn,
\* and the first plot that raises ends the function.
plot_each_subject(results, df, config, metrics_df) ==
    LET todo == Headed(results.results.false_positives, "False Positive")
                    \o Headed(results.results.false_negatives, "False Negative")
                    \o Headed(results.results.true_positives, "True Positive")
                    \o Headed(results.results.true_negatives, "True Negative")
        plots == [i \in 1..Len(todo) |->
                    plot_image_for_subject(ToString(todo[i].subject), df, DatasetDir,
                                           todo[i].header, config, metrics_df)]
        failed == {i \in 1..Len(todo) : plots[i].error # NoError}
        done == IF failed = {} THEN Len(todo)
                ELSE (CHOOSE i \in failed : \A j \in failed : i <= j) - 1
    IN  IF results.error # NoError THEN results
        ELSE [results EXCEPT !.display = [i \in 1..done |-> plots[i].printed[1]],
                             !.error = IF failed = {} THEN NoError
                                       ELSE plots[done + 1].error]

plot_k_best_and_worst_performing(val_metrics_csv, test_metrics_csv, k, df, hue, config, ties) ==
    plot_each_subject(get_k_best_and_worst_performing(val_metrics_csv, test_metrics_csv,
                                                      k, hue, ties),
                      df, config, test_metrics_csv)


\* --------------------------------------------------------- ScalarLightning
TRAIN_PREFIX == "train/"
VALIDATION_PREFIX == "val/"

\* The fields of the model configuration that ScalarLightning.__init__ reads.
ScalarConfig(is_sequence, class_names, positions, is_classification) ==
    [is_sequence |-> is_sequence, class_names |-> class_names,
     sequence_target_positions |-> positions,
     is_classification_model |-> is_classification]

\* SequenceMetricsDict.get_hue_name_from_target_index
get_hue_name_from_target_index(p) == "Seq_pos 0" \o ToString(p)

\* The metric classes of a prediction target; a metric is named by its class.
ClassificationMetrics ==
    <<"Accuracy05", "AccuracyAtOptimalThreshold", "OptimalThreshold",
      "FalsePositiveRateOptimalThreshold", "FalseNegativeRateOptimalThreshold",
      "AreaUnderRocCurve", "AreaUnderPrecisionRecallCurve",
      "BinaryCrossEntropyWithLogits">>

RegressionMetrics == <<"MeanAbsoluteError", "MeanSquaredError", "ExplainedVariance">>

\* metric.compute_from_logits
compute_from_logits(metric) == metric = "BinaryCrossEntropyWithLogits"

\* A metric accumulator: the number of update calls and the inputs received
\* since it was created or reset.
NewMetric == [updates |-> 0, inputs |-> << >>]

\* metric.has_predictions: update has been called at least once.
has_predictions(metric) == metric.updates > 0

\* metric(outputs, labels): one update call with the entries of a minibatch.
update(metric, entries) ==
    [updates |-> metric.updates + 1, inputs |-> metric.inputs \o entries]

_get_metrics_computers(is_classification_model) ==
    IF is_classification_model THEN ClassificationMetrics ELSE RegressionMetrics

\* ScalarLightning.__init__: the fields that the metric code reads.
ScalarLightningInit(config) ==
    [target_names |->
        IF config.is_sequence
        THEN [i \in 1..Len(config.sequence_target_positions) |->
                get_hue_name_from_target_index(config.sequence_target_positions[i])]
        ELSE config.class_names,
     is_classification_model |-> config.is_classification_model,
     is_binary_classification_or_regression |-> Len(config.class_names) = 1]

\* create_metric_computers: for every prediction target, new accumulators.
create_metric_computers(self) ==
    [t \in 1..Len(self.target_names) |->
        [m \in Range(_get_metrics_computers(self.is_classification_model)) |->
            NewMetric]]

\* get_masked_model_outputs_and_labels(logits[:, i], targets[:, i],
\* subject_ids): the entries whose label for target i is not NaN, and None
\* when there is no such entry.
get_masked_model_outputs_and_labels(sample, i) ==
    LET valid == SelectSeq(sample, LAMBDA x : x.labels[i] # NaN)
    IN  IF valid = << >> THEN None ELSE Some(valid)

\* The input that one subject gives to a metric of target i.
MetricInput(x, i, metric, epoch) ==
    [subject |-> x.subject,
     output |-> IF compute_from_logits(metric) THEN "logits" ELSE "posteriors",
     label |-> x.labels[i], epoch |-> epoch]

\* The record that one subject gives to the per-subject log.
SubjectRecord(x, i, prediction_target, epoch, data_split) ==
    [epoch |-> epoch, subject |-> x.subject, hue |-> prediction_target,
     model_output |-> "posteriors", label |-> x.labels[i],
     data_split |-> data_split]


\* per_subject_outputs after the loop over the targets i..Len(target_names).
RECURSIVE per_subject_outputs(_, _, _, _, _)
per_subject_outputs(self, sample, i, epoch, data_split) ==
    IF i > Len(self.target_names) THEN << >>
    ELSE LET masked == get_masked_model_outputs_and_labels(sample, i)
             outputs ==
                IF masked = None THEN << >>
                ELSE [n \in 1..Len(masked[1]) |->
                        SubjectRecord(masked[1][n], i, self.target_names[i],
                                      epoch, data_split)]
         IN  outputs \o per_subject_outputs(self, sample, i + 1, epoch, data_split)

\* Every subject of the minibatch counts for every target, labelled or not.
compute_and_log_metrics_unmasked(self, metrics, sample, epoch, is_training) ==
    [metrics |->
        [i \in DOMAIN metrics |->
            [metric \in DOMAIN metrics[i] |->
                update(metrics[i][metric],
                       [n \in 1..Len(sample) |->
                            MetricInput(sample[n], i, metric, epoch)])]],
     records |-> per_subject_outputs(self, sample, 1, epoch,
                                     IF is_training THEN "Train" ELSE "Val")]

\* ScalarLightning.compute_and_log_metrics: the metric computers of the
\* phase after the minibatch, and the records added to the logger.
compute_and_log_metrics(self, metrics, sample, epoch, is_training) ==
    [metrics |->
        [i \in DOMAIN metrics |->
            LET masked == get_masked_model_outputs_and_labels(sample, i)
            IN  IF masked = None THEN metrics[i]
                ELSE [metric \in DOMAIN metrics[i] |->
                        update(metrics[i][metric],
                               [n \in 1..Len(masked[1]) |->
                                    MetricInput(masked[1][n], i, metric, epoch)])]],
     records |-> per_subject_outputs(self, sample, 1, epoch,
                                     IF is_training THEN "Train" ELSE "Val")]

\* target_suffix of training_or_validation_epoch_end.
target_suffix(self, prediction_target) ==
    IF prediction_target = DEFAULT_HUE_KEY \/ self.is_binary_classification_or_regression
    THEN ""
    ELSE "/" \o prediction_target

\* Logs the metrics that have no predictions as well.
epoch_end_logging_every_metric(self, metric_computers, is_training) ==
    LET prefix == IF is_training THEN TRAIN_PREFIX ELSE VALIDATION_PREFIX
        metric_list == _get_metrics_computers(self.is_classification_model)
        K == Len(metric_list)
        all == [n \in 1..(Len(self.target_names) * K) |->
                    [target |-> ((n - 1) \div K) + 1,
                     metric |-> metric_list[((n - 1) % K) + 1]]]
    IN  [logged |->
            [n \in 1..Len(all) |->
                [name |-> prefix \o all[n].metric
                            \o target_suffix(self, self.target_names[all[n].target]),
                 value |-> metric_computers[all[n].target][all[n].metric].inputs]],
         metrics |->
            [i \in DOMAIN metric_computers |->
                [metric \in DOMAIN metric_computers[i] |-> NewMetric]]]

\* ScalarLightning.training_or_validation_epoch_end: the self.log calls, in
\* order, and the metric computers of the phase afterwards. The value
\* logged, metric.compute(), is a function of the inputs accumulated and
\* is represented by them.
training_or_validation_epoch_end(self, metric_computers, is_training) ==
    LET prefix == IF is_training THEN TRAIN_PREFIX ELSE VALIDATION_PREFIX
        metric_list == _get_metrics_computers(self.is_classification_model)
        K == Len(metric_list)
        all == [n \in 1..(Len(self.target_names) * K) |->
                    [target |-> ((n - 1) \div K) + 1,
                     metric |-> metric_list[((n - 1) % K) + 1]]]
        with_predictions ==
            SelectSeq(all, LAMBDA x :
                        has_predictions(metric_computers[x.target][x.metric]))
    IN  [logged |->
            [n \in 1..Len(with_predictions) |->
                LET x == with_predictions[n]
                IN  [name |-> prefix \o x.metric
                                \o target_suffix(self, self.target_names[x.target]),
                     value |-> metric_computers[x.target][x.metric].inputs]],
         metrics |->
            [i \in DOMAIN metric_computers |->
                [metric \in DOMAIN metric_computers[i] |->
                    IF has_predictions(metric_computers[i][metric])
                    THEN NewMetric
                    ELSE metric_computers[i][metric]]]]

\* SUBJECT_METRICS_FILE_NAME of InnerEye.Common.common_util
SUBJECT_METRICS_FILE_NAME == "metrics.csv"

SUBJECT_OUTPUT_PER_RANK_PREFIX == SUBJECT_METRICS_FILE_NAME \o ".rank"

\* The same file name for every rank.
get_subject_output_file_any_rank(rank) == SUBJECT_OUTPUT_PER_RANK_PREFIX

\* f"{SUBJECT_OUTPUT_PER_RANK_PREFIX}{rank}": the rank in decimal digits
\* after the prefix.
get_subject_output_file_per_rank(rank) ==
    SUBJECT_OUTPUT_PER_RANK_PREFIX \o ToString(rank)

\* self.train_metrics_folder and self.val_metrics_folder of InnerEyeLightning
train_metrics_folder == "Train"
val_metrics_folder == "Val"

\* A DataframeLogger for the file csv_path: the records in memory and those
\* flushed to its file.
DataframeLogger(csv_path) ==
    [csv_path |-> csv_path, records |-> << >>, file |-> << >>]

\* The attribute is not set: there is no logger object.
NoLogger == DataframeLogger(<< >>)

AttributeError == "AttributeError"

\* ScalarLightning.on_train_start: the two loggers of the rank.
on_train_start(global_rank) ==
    LET subject_output_file == get_subject_output_file_per_rank(global_rank)
    IN  [train_subject_outputs_logger |->
            DataframeLogger(JoinPath(train_metrics_folder, subject_output_file)),
         val_subject_outputs_logger |->
            DataframeLogger(JoinPath(val_metrics_folder, subject_output_file))]

\* DataframeLogger.add_record, for every record of a minibatch
add_records(logger, records) == [logger EXCEPT !.records = @ \o records]

\* Writes the buffer to the file and keeps it in memory.
flush_keeping_records(logger) == [logger EXCEPT !.file = @ \o logger.records]

\* DataframeLogger.flush
flush(logger) == [logger EXCEPT !.records = << >>, !.file = @ \o logger.records]


\* ------------------------------------------------- the worker processes
\* The process of a rank before its trainer has called on_train_start.
NotStarted ==
    [started |-> FALSE, train_subject_outputs_logger |-> NoLogger,
     val_subject_outputs_logger |-> NoLogger]

NoWorkers == << >>

\* ------------------------------------------------ transfer_batch_to_device
\* The values of a batch: tensors, ScalarItem objects (with the device that
\* their tensors are on) and lists of values. A tensor or item that is not
\* movable raises when it is moved to another device.
Tensor(device, movable) ==
    [type |-> "Tensor", device |-> device, movable |-> movable, elems |-> << >>]

ScalarItem(device, movable) ==
    [type |-> "ScalarItem", device |-> device, movable |-> movable, elems |-> << >>]

List(elems) == [type |-> "list", device |-> "", movable |-> TRUE, elems |-> elems]

\* A dictionary batch: the value of the key "items" and the value of another
\* key, None for a key that the dictionary does not have.
DictBatch(items, other) == [type |-> "dict", items |-> items, other |-> other]

\* A batch that is not a dictionary: the value itself.
NotADict(value) == [type |-> value.type, items |-> None, other |-> Some(value)]

NoBatch == [type |-> "none", items |-> None, other |-> None]

NotADictError == "ValueError: This function expects a dictionary input"
IndexError == "IndexError"
TypeError == "TypeError"
DeviceError == "RuntimeError"

\* The value is a tensor or an item that cannot go to the device.
Stuck(value, device) == ~value.movable /\ value.device # device

\* Lightning's move_data_to_device on one value: every tensor, also inside
\* lists, goes to the device; other objects are left as they are.
RECURSIVE moved_to_device(_, _)
moved_to_device(value, device) ==
    CASE value.type = "Tensor" -> [value EXCEPT !.device = device]
      [] value.type = "list" ->
            List([n \in 1..Len(value.elems) |-> moved_to_device(value.elems[n], device)])
      [] OTHER -> value

\* A tensor inside the value cannot go to the device.
RECURSIVE has_stuck_tensor(_, _)
has_stuck_tensor(value, device) ==
    CASE value.type = "Tensor" -> Stuck(value, device)
      [] value.type = "list" ->
            \E n \in 1..Len(value.elems) : has_stuck_tensor(value.elems[n], device)
      [] OTHER -> FALSE

\* move_data_to_device(batch, device) of pytorch_lightning.utilities on a
\* dictionary.
move_data_to_device(batch, device) ==
    LET values == batch.items \o batch.other
    IN  IF \E n \in 1..Len(values) : has_stuck_tensor(values[n], device)
        THEN [error |-> DeviceError, batch |-> NoBatch]
        ELSE [error |-> NoError,
              batch |-> [batch EXCEPT
                            !.items = [n \in 1..Len(@) |-> moved_to_device(@[n], device)],
                            !.other = [n \in 1..Len(@) |-> moved_to_device(@[n], device)]]]

\* ScalarItem.to_device(device), called on j: the item with its tensors on
\* the device.
to_device(j, device) == [j EXCEPT !.device = device]

\* What j.to_device(device) raises for an element j of an inner list.
to_device_error(j, device) ==
    CASE j.type = "ScalarItem" -> IF Stuck(j, device) THEN DeviceError ELSE NoError
      [] OTHER -> AttributeError

\* What [j.to_device(device) for j in i] raises for an element i of items.
inner_list_error(i, device) ==
    CASE i.type = "ScalarItem" -> TypeError
      [] i.type = "Tensor" -> AttributeError
      [] OTHER ->
            LET failed == {n \in 1..Len(i.elems) :
                            to_device_error(i.elems[n], device) # NoError}
            IN  IF failed = {} THEN NoError
                ELSE to_device_error(i.elems[CHOOSE n \in failed :
                                                \A k \in failed : n <= k], device)

\* batch["items"] = [[j.to_device(device) for j in i] for i in items]
items_to_device(batch, items, device) ==
    LET failed == {n \in 1..Len(items.elems) :
                    inner_list_error(items.elems[n], device) # NoError}
    IN  IF failed # {}
        THEN [error |-> inner_list_error(items.elems[CHOOSE n \in failed :
                                                        \A k \in failed : n <= k],
                                         device),
              batch |-> NoBatch]
        ELSE [error |-> NoError,
              batch |-> [batch EXCEPT !.items =
                            Some(List([n \in 1..Len(items.elems) |->
                                List([k \in 1..Len(items.elems[n].elems) |->
                                    to_device(items.elems[n].elems[k], device)])]))]]

transfer_batch_to_device(batch, device) ==
    IF batch.type # "dict" THEN [error |-> NotADictError, batch |-> NoBatch]
    ELSE LET items == batch.items
         IN  IF items # None /\ items[1].type = "list"
             THEN IF Len(items[1].elems) = 0
                  THEN [error |-> IndexError, batch |-> NoBatch]
                  ELSE IF items[1].elems[1].type # "list"
                  THEN move_data_to_device(batch, device)
                  ELSE IF Len(items[1].elems[1].elems) = 0
                  THEN [error |-> IndexError, batch |-> NoBatch]
                  ELSE IF items[1].elems[1].elems[1].type # "ScalarItem"
                  THEN move_data_to_device(batch, device)
                  ELSE items_to_device(batch, items[1], device)
             ELSE move_data_to_device(batch, device)

\* No call of transfer_batch_to_device yet.
NoTransfer ==
    [called |-> FALSE, batch |-> NoBatch, device |-> "", returned |-> NoBatch]

\* --------------------------------------------------- SegmentationLightning
\* MetricForMultipleStructures(ground_truth_ids, is_training, metric_name):
\* for every structure the values received since it was created or reset.
MetricForMultipleStructures(ground_truth_ids, is_training, metric_name) ==
    [is_training |-> is_training, metric_name |-> metric_name,
     values |-> [s \in 1..Len(ground_truth_ids) |-> << >>]]

\* MetricForMultipleStructures.update(values_per_structure)
update_structures(metric, values_per_structure) ==
    [metric EXCEPT !.values =
        [s \in DOMAIN @ |-> Append(@[s], values_per_structure[s])]]

\* MetricForMultipleStructures.reset()
reset_structures(metric) ==
    [metric EXCEPT !.values = [s \in DOMAIN @ |-> << >>]]

\* The sum of the numerators of values (all in tenths).
RECURSIVE SumNum(_)
SumNum(values) ==
    IF values = << >> THEN 0 ELSE Head(values).num + SumNum(Tail(values))

\* The mean with a NaN value counted as 0.
mean_nan_as_zero(values) ==
    LET valid == SelectSeq(values, LAMBDA v : v.kind = "float")
    IN  IF valid = << >> THEN NaNValue
        ELSE Float(SumNum(valid), Len(values) * ScoreUnit)

\* The mean of the values that are not NaN, and NaN when there is none.
nanmean(values) ==
    LET valid == SelectSeq(values, LAMBDA v : v.kind = "float")
    IN  IF valid = << >> THEN NaNValue
        ELSE Float(SumNum(valid), Len(valid) * ScoreUnit)

\* MetricForMultipleStructures.compute_all(): a name and a value for every
\* structure, the value being the mean without the NaN values.
compute_all(metric, ground_truth_ids) ==
    [s \in 1..Len(ground_truth_ids) |->
        [name |-> (IF metric.is_training THEN TRAIN_PREFIX ELSE VALIDATION_PREFIX)
                    \o metric.metric_name \o "/" \o ground_truth_ids[s],
         value |-> nanmean(metric.values[s])]]

\* SegmentationLightning.__init__: the fields that the metric code uses.
SegmentationLightningInit(ground_truth_ids) ==
    [ground_truth_ids |-> ground_truth_ids,
     train_dice |-> MetricForMultipleStructures(ground_truth_ids, TRUE, "Dice"),
     val_dice |-> MetricForMultipleStructures(ground_truth_ids, FALSE, "Dice"),
     train_voxels |-> MetricForMultipleStructures(ground_truth_ids, TRUE, "VoxelCount"),
     val_voxels |-> MetricForMultipleStructures(ground_truth_ids, FALSE, "VoxelCount"),
     train_diagnostics |-> << >>,
     val_diagnostics |-> << >>,
     logged |-> << >>]

\* The loop of compute_metrics over the crops i..n of the minibatch.
RECURSIVE update_per_crop(_, _, _, _, _)
update_per_crop(self, dice_per_crop_and_class, foreground_voxels, i, is_training) ==
    IF i > Len(dice_per_crop_and_class) THEN self
    ELSE update_per_crop(
            IF is_training
            THEN [self EXCEPT
                    !.train_dice = update_structures(@, dice_per_crop_and_class[i]),
                    !.train_voxels = update_structures(@, foreground_voxels[i])]
            ELSE [self EXCEPT
                    !.val_dice = update_structures(@, dice_per_crop_and_class[i]),
                    !.val_voxels = update_structures(@, foreground_voxels[i])],
            dice_per_crop_and_class, foreground_voxels, i + 1, is_training)

\* Stores the metrics of every minibatch with the training metrics.
compute_metrics_as_training(self, dice_per_crop_and_class, foreground_voxels, center_indices, is_training) ==
    [update_per_crop(self, dice_per_crop_and_class, foreground_voxels, 1, TRUE)
        EXCEPT !.train_diagnostics = Append(@, center_indices)]

\* SegmentationLightning.compute_metrics
compute_metrics(self, dice_per_crop_and_class, foreground_voxels, center_indices, is_training) ==
    LET updated == update_per_crop(self, dice_per_crop_and_class,
                                   foreground_voxels, 1, is_training)
    IN  IF is_training
        THEN [updated EXCEPT !.train_diagnostics = Append(@, center_indices)]
        ELSE [updated EXCEPT !.val_diagnostics = Append(@, center_indices)]

\* SegmentationLightning.training_or_validation_epoch_end: the self.log
\* calls, in order, and the metrics afterwards.
segmentation_epoch_end(self, is_training) ==
    LET dice == IF is_training THEN self.train_dice ELSE self.val_dice
        voxel_count == IF is_training THEN self.train_voxels ELSE self.val_voxels
        logs == compute_all(dice, self.ground_truth_ids)
                    \o compute_all(voxel_count, self.ground_truth_ids)
    IN  IF is_training
        THEN [self EXCEPT !.logged = logs,
                          !.train_dice = reset_structures(@),
                          !.train_voxels = reset_structures(@)]
        ELSE [self EXCEPT !.logged = logs,
                          !.val_dice = reset_structures(@),
                          !.val_voxels = reset_structures(@)]

\* No segmentation model: an object without structures.
NoSegmentation == SegmentationLightningInit(<< >>)

\* ------------------------------------------------------------------ state
VARIABLES
    val_csv,    \* the validation metrics file
    test_csv,   \* the test metrics file
    pc,         \* "logging" while the files are written, "reported" after a call
    call,       \* the report function called and its arguments
    ret,        \* what the call returned or raised
    dataset_df, \* the dataset table (dataset.csv)
    model,      \* the fields of the ScalarLightning object set by __init__
    train_metric_computers,         \* self.train_metric_computers
    val_metric_computers,           \* self.val_metric_computers
    train_subject_outputs_logger,   \* self.train_subject_outputs_logger
    val_subject_outputs_logger,     \* self.val_subject_outputs_logger
    current_epoch,  \* self.current_epoch, advanced by the trainer
    logged,     \* the self.log calls of the latest epoch end
    pending,    \* the phases with a step since their latest epoch end
    steps,      \* the number of minibatches so far
    raised,     \* the exception that the latest call on the model raised
    workers,    \* the loggers of the worker process of every rank
    transfer,   \* the latest call of transfer_batch_to_device
    segmentation    \* the fields of the SegmentationLightning object

reportVars == <<val_csv, test_csv, pc, call, ret, dataset_df>>

otherVars == <<workers, transfer, segmentation>>

lightningVars ==
    <<model, train_metric_computers, val_metric_computers,
      train_subject_outputs_logger, val_subject_outputs_logger, current_epoch,
      logged, pending, steps, raised, otherVars>>

vars == <<reportVars, lightningVars>>

\* The state of a ScalarLightning object made for the model configuration
\* config, before on_train_start.
ScalarLightningConstructed(config) ==
    /\ model = ScalarLightningInit(config)
    /\ train_metric_computers = create_metric_computers(model)
    /\ val_metric_computers = create_metric_computers(model)
    /\ current_epoch = 0
    /\ logged = << >>
    /\ pending = {}
    /\ steps = 0
    /\ raised = NoError

\* No worker processes, no batch transfer and no segmentation model.
NoOthers ==
    /\ workers = NoWorkers
    /\ transfer = NoTransfer
    /\ segmentation = NoSegmentation

\* The state of a ScalarLightning object made for the model configuration
\* config, after on_train_start in the process of rank 0.
ScalarLightningCreated(config) ==
    /\ ScalarLightningConstructed(config)
    /\ train_subject_outputs_logger = on_train_start(0).train_subject_outputs_logger
    /\ val_subject_outputs_logger = on_train_start(0).val_subject_outputs_logger
    /\ NoOthers

\* No model is trained while the report is made.
NoLightning == ScalarLightningCreated(ScalarConfig(FALSE, <<DEFAULT_HUE_KEY>>, << >>, TRUE))

NoCall == [op |-> "none", hue |-> DEFAULT_HUE_KEY, file |-> "none",
           metric |-> "none", optimal_threshold |-> None, k |-> 0,
           ties |-> "stable", subject_id |-> "", config |-> NoConfig]

\* No metrics file is written and no report function is called.
NoReport ==
    /\ val_csv = << >>
    /\ test_csv = << >>
    /\ pc = "logging"
    /\ call = NoCall
    /\ ret = Raise(NoError)
    /\ dataset_df = NoDataset

Init ==
    /\ val_csv = << >>
    /\ test_csv = << >>
    /\ pc = "logging"
    /\ call = NoCall
    /\ ret = Raise(NoError)
    /\ dataset_df = NoDataset
    /\ NoLightning

\* A row is appended to the validation file.
WriteVal(row, max) ==
    /\ pc = "logging"
    /\ Len(val_csv) < max
    /\ val_csv' = Append(val_csv, row)
    /\ UNCHANGED <<test_csv, pc, call, ret, dataset_df, lightningVars>>

\* A row is appended to the test file.
WriteTest(row, max) ==
    /\ pc = "logging"
    /\ Len(test_csv) < max
    /\ test_csv' = Append(test_csv, row)
    /\ UNCHANGED <<val_csv, pc, call, ret, dataset_df, lightningVars>>

\* A call of get_correct_and_misclassified_examples(val, test, hue).
GetCorrectAndMisclassified(hue) ==
    /\ pc = "logging"
    /\ pc' = "reported"
    /\ call' = [NoCall EXCEPT !.op = "get_correct_and_misclassified_examples",
                              !.hue = hue]
    /\ ret' = get_correct_and_misclassified_examples(val_csv, test_csv, hue)
    /\ UNCHANGED <<val_csv, test_csv, dataset_df, lightningVars>>

\* A call of get_labels_and_predictions(csv, hue) on one of the two files.
GetLabelsAndPredictions(file, hue) ==
    /\ pc = "logging"
    /\ pc' = "reported"
    /\ call' = [NoCall EXCEPT !.op = "get_labels_and_predictions",
                              !.hue = hue, !.file = file]
    /\ ret' = get_labels_and_predictions(IF file = "val" THEN val_csv ELSE test_csv, hue)
    /\ UNCHANGED <<val_csv, test_csv, dataset_df, lightningVars>>

\* The metrics of both files are read and get_metric is called on them.
GetMetric(hue, metric, optimal_threshold) ==
    LET val_metrics == get_labels_and_predictions(val_csv, hue)
        test_metrics == get_labels_and_predictions(test_csv, hue)
    IN  /\ pc = "logging"
        /\ pc' = "reported"
        /\ call' = [NoCall EXCEPT !.op = "get_metric", !.hue = hue,
                                  !.metric = metric,
                                  !.optimal_threshold = optimal_threshold]
        /\ ret' = IF val_metrics.error # NoError THEN Raise(val_metrics.error)
                  ELSE IF test_metrics.error # NoError THEN Raise(test_metrics.error)
                  ELSE get_metric(val_metrics.labels_and_predictions,
                                  test_metrics.labels_and_predictions,
                                  metric, optimal_threshold)
        /\ UNCHANGED <<val_csv, test_csv, dataset_df, lightningVars>>

\* A call of get_k_best_and_worst_performing(val, test, k, hue).
GetKBestAndWorstPerforming(hue, k, ties) ==
    /\ pc = "logging"
    /\ pc' = "reported"
    /\ call' = [NoCall EXCEPT !.op = "get_k_best_and_worst_performing",
                              !.hue = hue, !.k = k, !.ties = ties]
    /\ ret' = get_k_best_and_worst_performing(val_csv, test_csv, k, hue, ties)
    /\ UNCHANGED <<val_csv, test_csv, dataset_df, lightningVars>>

\* A row is appended to the dataset table.
WriteDataset(row, max) ==
    /\ pc = "logging"
    /\ Len(dataset_df.rows) < max
    /\ dataset_df' = [dataset_df EXCEPT !.rows = Append(@, row)]
    /\ UNCHANGED <<val_csv, test_csv, pc, call, ret, lightningVars>>

\* A call of get_image_filepath_from_subject_id.
GetImageFilepath(subject_id, config) ==
    /\ pc = "logging"
    /\ pc' = "reported"
    /\ call' = [NoCall EXCEPT !.op = "get_image_filepath_from_subject_id",
                              !.subject_id = subject_id, !.config = config]
    /\ ret' = get_image_filepath_from_subject_id(subject_id, dataset_df, config,
                                                 DatasetDir)
    /\ UNCHANGED <<val_csv, test_csv, dataset_df, lightningVars>>

\* A call of get_image_labels_from_subject_id.
GetImageLabels(subject_id, config) ==
    /\ pc = "logging"
    /\ pc' = "reported"
    /\ call' = [NoCall EXCEPT !.op = "get_image_labels_from_subject_id",
                              !.subject_id = subject_id, !.config = config]
    /\ ret' = get_image_labels_from_subject_id(subject_id, dataset_df, config)
    /\ UNCHANGED <<val_csv, test_csv, dataset_df, lightningVars>>

\* A call of plot_k_best_and_worst_performing.
PlotKBestAndWorstPerforming(hue, k, config, ties) ==
    /\ pc = "logging"
    /\ pc' = "reported"
    /\ call' = [NoCall EXCEPT !.op = "plot_k_best_and_worst_performing",
                              !.hue = hue, !.k = k, !.config = config,
                              !.ties = ties]
    /\ ret' = plot_k_best_and_worst_performing(val_csv, test_csv, k, dataset_df,
                                               hue, config, ties)
    /\ UNCHANGED <<val_csv, test_csv, dataset_df, lightningVars>>

\* training_step / validation_step: training_or_validation_step on one
\* minibatch, of which compute_and_log_metrics changes the state kept here.
TrainingOrValidationStep(sample, is_training, max) ==
    LET metrics == IF is_training THEN train_metric_computers ELSE val_metric_computers
        after == compute_and_log_metrics(model, metrics, sample, current_epoch, is_training)
        \* logger = self.train_subject_outputs_logger if is_training else ...
        \* raises when on_train_start has not set the attribute
        logger == IF is_training THEN train_subject_outputs_logger
                  ELSE val_subject_outputs_logger
        added == IF logger = NoLogger THEN logger
                 ELSE add_records(logger, after.records)
    IN  /\ steps < max
        /\ steps' = steps + 1
        /\ pending' = pending \cup {is_training}
        /\ raised' = IF logger = NoLogger THEN AttributeError ELSE NoError
        /\ IF is_training
           THEN /\ train_metric_computers' = after.metrics
                /\ train_subject_outputs_logger' = added
                /\ UNCHANGED <<val_metric_computers, val_subject_outputs_logger>>
           ELSE /\ val_metric_computers' = after.metrics
                /\ val_subject_outputs_logger' = added
                /\ UNCHANGED <<train_metric_computers, train_subject_outputs_logger>>
        /\ UNCHANGED <<model, current_epoch, logged, otherVars, reportVars>>

\* training_epoch_end / validation_epoch_end
TrainingOrValidationEpochEnd(is_training) ==
    LET metric_computers ==
            IF is_training THEN train_metric_computers ELSE val_metric_computers
        after == training_or_validation_epoch_end(model, metric_computers, is_training)
        \* logger = self.train_subject_outputs_logger if is_training else ...
        \* raises when on_train_start has not set the attribute
        logger == IF is_training THEN train_subject_outputs_logger
                  ELSE val_subject_outputs_logger
        flushed == IF logger = NoLogger THEN logger ELSE flush(logger)
    IN  /\ logged' = after.logged
        /\ pending' = pending \ {is_training}
        /\ raised' = IF logger = NoLogger THEN AttributeError ELSE NoError
        /\ IF is_training
           THEN /\ train_metric_computers' = after.metrics
                /\ train_subject_outputs_logger' = flushed
                /\ UNCHANGED <<val_metric_computers, val_subject_outputs_logger>>
           ELSE /\ val_metric_computers' = after.metrics
                /\ val_subject_outputs_logger' = flushed
                /\ UNCHANGED <<train_metric_computers, train_subject_outputs_logger>>
        /\ UNCHANGED <<model, current_epoch, steps, otherVars, reportVars>>

\* The trainer starts the next epoch once the epoch end of every phase that
\* had a step has run.
NextEpoch(max) ==
    /\ pending = {}
    /\ current_epoch < max
    /\ current_epoch' = current_epoch + 1
    /\ UNCHANGED <<model, train_metric_computers, val_metric_computers,
                   train_subject_outputs_logger, val_subject_outputs_logger,
                   logged, pending, steps, raised, otherVars, reportVars>>

\* on_train_start, called by the trainer of the process of rank global_rank
\* once, when training starts.
OnTrainStart(global_rank) ==
    /\ train_subject_outputs_logger = NoLogger
    /\ val_subject_outputs_logger = NoLogger
    /\ train_subject_outputs_logger' =
            on_train_start(global_rank).train_subject_outputs_logger
    /\ val_subject_outputs_logger' =
            on_train_start(global_rank).val_subject_outputs_logger
    /\ raised' = NoError
    /\ UNCHANGED <<model, train_metric_computers, val_metric_computers,
                   current_epoch, logged, pending, steps, otherVars, reportVars>>

\* A call of ScalarLightning.transfer_batch_to_device(batch, device).
TransferBatchToDevice(batch, device) ==
    LET result == transfer_batch_to_device(batch, device)
    IN  /\ transfer' = [called |-> TRUE, batch |-> batch, device |-> device,
                        returned |-> result.batch]
        /\ raised' = result.error
        /\ UNCHANGED <<reportVars, model, train_metric_computers,
                       val_metric_computers, train_subject_outputs_logger,
                       val_subject_outputs_logger, current_epoch, logged, pending,
                       steps, workers, segmentation>>

\* SegmentationLightning training_step / validation_step on one minibatch,
\* of which compute_metrics changes the state kept here.
SegmentationStep(sample, is_training, max) ==
    /\ steps < max
    /\ steps' = steps + 1
    /\ segmentation' =
            compute_metrics(segmentation, [i \in 1..Len(sample) |-> sample[i].dice],
                            [i \in 1..Len(sample) |-> sample[i].voxels],
                            steps, is_training)
    /\ UNCHANGED <<reportVars, model, train_metric_computers, val_metric_computers,
                   train_subject_outputs_logger, val_subject_outputs_logger,
                   current_epoch, logged, pending, raised, workers, transfer>>

\* SegmentationLightning training_epoch_end / validation_epoch_end
SegmentationEpochEnd(is_training) ==
    /\ segmentation' = segmentation_epoch_end(segmentation, is_training)
    /\ UNCHANGED <<reportVars, model, train_metric_computers, val_metric_computers,
                   train_subject_outputs_logger, val_subject_outputs_logger,
                   current_epoch, logged, pending, steps, raised, workers,
                   transfer>>

\* on_train_start in the worker process of rank r.
WorkerOnTrainStart(r) ==
    /\ ~workers[r].started
    /\ workers' = [workers EXCEPT ![r] =
            [started |-> TRUE,
             train_subject_outputs_logger |->
                on_train_start(r).train_subject_outputs_logger,
             val_subject_outputs_logger |->
                on_train_start(r).val_subject_outputs_logger]]
    /\ UNCHANGED <<reportVars, model, train_metric_computers, val_metric_computers,
                   train_subject_outputs_logger, val_subject_outputs_logger,
                   current_epoch, logged, pending, steps, raised, transfer,
                   segmentation>>

\* A training or validation step in the worker process of rank r adds the
\* record of one subject to the logger of the phase.
WorkerStep(r, is_training, subject, max) ==
    LET logger == IF is_training THEN workers[r].train_subject_outputs_logger
                  ELSE workers[r].val_subject_outputs_logger
        record == SubjectRecord([subject |-> subject, labels |-> <<"1.0">>], 1,
                                DEFAULT_HUE_KEY, 0,
                                IF is_training THEN "Train" ELSE "Val")
        added == add_records(logger, <<record>>)
    IN  /\ workers[r].started
        /\ Len(logger.records) + Len(logger.file) < max
        /\ workers' =
                IF is_training
                THEN [workers EXCEPT ![r].train_subject_outputs_logger = added]
                ELSE [workers EXCEPT ![r].val_subject_outputs_logger = added]
        /\ UNCHANGED <<reportVars, model, train_metric_computers,
                       val_metric_computers, train_subject_outputs_logger,
                       val_subject_outputs_logger, current_epoch, logged, pending,
                       steps, raised, transfer, segmentation>>

\* The epoch end of a phase in the worker process of rank r flushes the
\* logger of the phase.
WorkerEpochEnd(r, is_training) ==
    /\ workers[r].started
    /\ workers' =
            IF is_training
            THEN [workers EXCEPT ![r].train_subject_outputs_logger = flush(@)]
            ELSE [workers EXCEPT ![r].val_subject_outputs_logger = flush(@)]
    /\ UNCHANGED <<reportVars, model, train_metric_computers, val_metric_computers,
                   train_subject_outputs_logger, val_subject_outputs_logger,
                   current_epoch, logged, pending, steps, raised, transfer,
                   segmentation>>

\* ------------------------------------------- Spec: partitioning the test rows
Hues == {DEFAULT_HUE_KEY, "Other"}

\* Validation rows: subject ids follow the row number.
PartitionValRows ==
    {Row(DEFAULT_HUE_KEY, Len(val_csv), o, l, 0, "Val") :
        o \in {0, ScoreUnit}, l \in {0, 1}}

\* Test rows of both hues, with well-formed and ill-formed labels.
PartitionTestRows ==
    {Row(h, Len(test_csv), o, l, 0, "Test") :
        h \in Hues, o \in {0, ScoreUnit}, l \in {0, 1, 2}}

Next ==
    \/ \E r \in PartitionValRows : WriteVal(r, MaxValRows)
    \/ \E r \in PartitionTestRows : WriteTest(r, MaxTestRows)
    \/ \E h \in Hues : GetCorrectAndMisclassified(h)

Spec == Init /\ [][Next]_vars

\* ------------------------- SpecThreshold: the threshold of a validation file
\* Validation rows with outputs -0.5, 0.0 and 1.0.
CurveValRows ==
    {Row(DEFAULT_HUE_KEY, Len(val_csv), o, l, 0, "Val") :
        o \in {0 - 5, 0, ScoreUnit}, l \in {0, 1}}

NextThreshold ==
    \/ \E r \in CurveValRows : WriteVal(r, MaxCurveRows)
    \/ GetMetric(DEFAULT_HUE_KEY, OptimalThreshold, None)
    \/ GetCorrectAndMisclassified(DEFAULT_HUE_KEY)

SpecThreshold == Init /\ [][NextThreshold]_vars

\* ------------------------------------- SpecMetric: get_metric on small files
\* Validation rows with outputs -0.5, 0.0 and 1.0.
MetricValRows ==
    {Row(DEFAULT_HUE_KEY, Len(val_csv), o, l, 0, "Val") :
        o \in {0 - 5, 0, ScoreUnit}, l \in {0, 1}}

MetricTestRows ==
    {Row(DEFAULT_HUE_KEY, Len(test_csv), o, l, 0, "Test") :
        o \in {0, ScoreUnit}, l \in {0, 1}}

\* optimal_threshold arguments: not given, 0.0 and 0.5
MetricThresholds == {None, Some(0), Some(5)}

NextMetric ==
    \/ \E r \in MetricValRows : WriteVal(r, MaxMetricRows)
    \/ \E r \in MetricTestRows : WriteTest(r, MaxMetricRows)
    \/ \E m \in ReportedMetrics, t \in MetricThresholds :
            GetMetric(DEFAULT_HUE_KEY, m, t)

SpecMetric == Init /\ [][NextMetric]_vars

\* ---------------------------- SpecFixture: the metrics files of the tests
\* test_metrics_classification.csv as test_get_labels_and_predictions reads
\* it: subjects 0..11, labels [1] * 6 + [0] * 6, outputs
\* [0.0, 0.2, 0.4, 0.6, 0.8, 1.0] * 2, every row "Default,1,<subject>,...,Test".
FixtureLabels == <<1, 1, 1, 1, 1, 1, 0, 0, 0, 0, 0, 0>>
FixtureOutputs == <<0, 2, 4, 6, 8, 10, 0, 2, 4, 6, 8, 10>>

FixtureRow(i, split) ==
    Row(DEFAULT_HUE_KEY, i - 1, FixtureOutputs[i], FixtureLabels[i], 1, split)

\* optimal_threshold arguments of test_get_metric: not given, 0.3 and 0.1
FixtureThresholds == {None, Some(3), Some(1)}

NextFixture ==
    \/ WriteVal(FixtureRow(Len(val_csv) + 1, "Val"), Len(FixtureLabels))
    \/ WriteTest(FixtureRow(Len(test_csv) + 1, "Test"), Len(FixtureLabels))
    \/ \E m \in ReportedMetrics, t \in FixtureThresholds :
            GetMetric(DEFAULT_HUE_KEY, m, t)
    \/ GetCorrectAndMisclassified(DEFAULT_HUE_KEY)

SpecFixture == Init /\ [][NextFixture]_vars

\* -------------------------------- SpecRead: subject ids, hues and epochs
ReadRows(split) ==
    {Row(h, s, ScoreUnit, 1, e, split) : h \in Hues, s \in {0, 1}, e \in {0, 1}}

ReadRoom == Len(val_csv) + Len(test_csv) < MaxReadRows

NextRead ==
    \/ \E r \in ReadRows("Val") : ReadRoom /\ WriteVal(r, MaxReadRows)
    \/ \E r \in ReadRows("Test") : ReadRoom /\ WriteTest(r, MaxReadRows)
    \/ \E f \in {"val", "test"}, h \in Hues : GetLabelsAndPredictions(f, h)
    \/ \E h \in Hues : GetCorrectAndMisclassified(h)

SpecRead == Init /\ [][NextRead]_vars

\* ------------------------------- SpecRank: the k best and worst test rows
\* The validation file: label 0 at 0.0 and label 1 at 0.5, which puts the
\* threshold at 0.5.
RankValLabels == <<0, 1>>
RankValOutputs == <<0, 5>>

RankValRow(i) ==
    Row(DEFAULT_HUE_KEY, i - 1, RankValOutputs[i], RankValLabels[i], 0, "Val")

\* Test rows with outputs 0.0, 0.3, 0.5 and 1.0.
RankTestRows ==
    {Row(DEFAULT_HUE_KEY, Len(test_csv), o, l, 0, "Test") :
        o \in {0, 3, 5, ScoreUnit}, l \in {0, 1}}

\* The values of k: negative, zero, and up to one more than there are rows.
RankKs == (0 - 2)..(MaxRankRows + 1)

NextRank ==
    \/ WriteVal(RankValRow(Len(val_csv) + 1), Len(RankValLabels))
    \/ \E r \in RankTestRows : WriteTest(r, MaxRankRows)
    \/ \E k \in RankKs, t \in TieOrders :
            GetKBestAndWorstPerforming(DEFAULT_HUE_KEY, k, t)

SpecRank == Init /\ [][NextRank]_vars

\* ------------------------------------ SpecFilepath: looking up image files
\* The state before a dataset table with or without the channel column is
\* written.
InitDataset ==
    /\ val_csv = << >>
    /\ test_csv = << >>
    /\ pc = "logging"
    /\ call = NoCall
    /\ ret = Raise(NoError)
    /\ dataset_df \in {Dataset(c, << >>) : c \in BOOLEAN}
    /\ NoLightning

Subjects == {"0", "1"}
Channels == {"channel1", "channel2"}

\* The channel cells of a row: none without the channel column.
ChannelCells == IF dataset_df.channel_column THEN Channels ELSE {NaN}

\* Rows with an image file, or with an empty file cell.
FilepathRows ==
    {DatasetRow(s, c, f, "1") :
        s \in Subjects, c \in ChannelCells, f \in {"image.npy", "other.npy", NaN}}

\* Subject ids asked for: two of the table and one that is in no table.
SubjectIds == Subjects \cup {"100"}

ChannelLists == {<< >>, <<"channel1">>, <<"channel1", "channel2">>}

NextFilepath ==
    \/ \E r \in FilepathRows : WriteDataset(r, MaxDatasetRows)
    \/ \E id \in SubjectIds, cs \in ChannelLists :
            GetImageFilepath(id, Config(cs, << >>))

SpecFilepath == InitDataset /\ [][NextFilepath]_vars

\* ---------------------------------------- SpecLabels: looking up labels
\* Rows with label "0", "1" or an empty label cell.
LabelRows ==
    {DatasetRow(s, c, "image.npy", l) :
        s \in Subjects, c \in ChannelCells, l \in {"0", "1", NaN}}

NextLabels ==
    \/ \E r \in LabelRows : WriteDataset(r, MaxDatasetRows)
    \/ \E id \in SubjectIds, cs \in ChannelLists :
            GetImageLabels(id, Config(<< >>, cs))

SpecLabels == InitDataset /\ [][NextLabels]_vars

\* ------------------------------- SpecPlot: plotting the ranked test rows
\* Test rows at or above the threshold 0.5 of the validation file.
PlotTestRows ==
    {Row(DEFAULT_HUE_KEY, Len(test_csv), o, l, 0, "Test") :
        o \in {5, ScoreUnit}, l \in {0, 1}}

\* Dataset rows without channels: subject 0 with label "0" or "1", subject 1
\* with label "1".
PlotDatasetRows ==
    {DatasetRow(r[1], NaN, "image.npy", r[2]) :
        r \in {<<"0", "0">>, <<"0", "1">>, <<"1", "1">>}}

PlotKs == 1..MaxPlotRows

NextPlot ==
    \/ WriteVal(RankValRow(Len(val_csv) + 1), Len(RankValLabels))
    \/ \E r \in PlotTestRows : WriteTest(r, MaxPlotRows)
    \/ \E r \in PlotDatasetRows : WriteDataset(r, MaxDatasetRows)
    \/ \E k \in PlotKs, t \in TieOrders :
            PlotKBestAndWorstPerforming(DEFAULT_HUE_KEY, k, NoConfig, t)

SpecPlot == Init /\ [][NextPlot]_vars

\* ------------------------------ SpecScalar: the metrics of ScalarLightning
\* Model configurations: binary classification, regression, two classes,
\* and sequence models with one and with two target positions.
ScalarConfigs ==
    {ScalarConfig(FALSE, <<DEFAULT_HUE_KEY>>, << >>, TRUE),
     ScalarConfig(FALSE, <<DEFAULT_HUE_KEY>>, << >>, FALSE),
     ScalarConfig(FALSE, <<"class1", "class2">>, << >>, TRUE),
     ScalarConfig(TRUE, <<DEFAULT_HUE_KEY>>, <<1>>, TRUE),
     ScalarConfig(TRUE, <<DEFAULT_HUE_KEY>>, <<1, 2>>, TRUE)}

InitScalar ==
    /\ val_csv = << >>
    /\ test_csv = << >>
    /\ pc = "logging"
    /\ call = NoCall
    /\ ret = Raise(NoError)
    /\ dataset_df = NoDataset
    /\ \E config \in ScalarConfigs : ScalarLightningCreated(config)

\* The labels of one subject: for every target 1.0, or NaN for no label.
SubjectLabels == [1..Len(model.target_names) -> {"1.0", NaN}]

\* A subject with a label for every target.
FullyLabelled == [t \in 1..Len(model.target_names) |-> "1.0"]

\* A subject with a label for the first target only.
FirstLabelled ==
    [t \in 1..Len(model.target_names) |-> IF t = 1 THEN "1.0" ELSE NaN]

\* Minibatches: none, one subject, and a subject labelled for the first
\* target followed by a fully labelled one. The subject ids follow the step
\* and the position in the minibatch.
Samples ==
    {<< >>} \cup {<<l>> : l \in SubjectLabels}
            \cup {<<FirstLabelled, FullyLabelled>>}

Sample(labels) ==
    [n \in 1..Len(labels) |->
        [subject |-> ToString(steps) \o "." \o ToString(n), labels |-> labels[n]]]

NextScalar ==
    \/ \E labels \in Samples, is_training \in BOOLEAN :
            TrainingOrValidationStep(Sample(labels), is_training, MaxSteps)
    \/ \E is_training \in BOOLEAN : TrainingOrValidationEpochEnd(is_training)
    \/ NextEpoch(MaxEpochs)

SpecScalar == InitScalar /\ [][NextScalar]_vars

\* ------------------------- SpecRanks: the worker processes of a training run
\* The ranks of the worker processes.
Ranks == {0, 1, 11}

InitRanks ==
    /\ NoReport
    /\ ScalarLightningConstructed(ScalarConfig(FALSE, <<DEFAULT_HUE_KEY>>, << >>, TRUE))
    /\ train_subject_outputs_logger = NoLogger
    /\ val_subject_outputs_logger = NoLogger
    /\ workers = [r \in Ranks |-> NotStarted]
    /\ transfer = NoTransfer
    /\ segmentation = NoSegmentation

NextRanks ==
    \/ \E r \in Ranks : WorkerOnTrainStart(r)
    \/ \E r \in Ranks, is_training \in BOOLEAN :
            WorkerStep(r, is_training, "0", MaxWorkerRecords)
    \/ \E r \in Ranks, is_training \in BOOLEAN : WorkerEpochEnd(r, is_training)

SpecRanks == InitRanks /\ [][NextRanks]_vars

\* --------------------------- SpecTransfer: batches moved to a device
Devices == {"cpu", "cuda:0"}

ScalarItems == {ScalarItem(d, mv) : d \in Devices, mv \in BOOLEAN}

\* The lists of up to MaxItems ScalarItem objects.
ItemLists == UNION {[1..n -> ScalarItems] : n \in 1..MaxItems}

\* Values of the key "items": no such key, a tensor, lists that do not hold
\* lists of ScalarItem objects, one list of items, and two lists of one item.
ItemsValues ==
    {None, Some(Tensor("cpu", TRUE)), Some(List(<< >>)),
     Some(List(<<Tensor("cpu", TRUE)>>)), Some(List(<<List(<< >>)>>)),
     Some(List(<<List(<<Tensor("cpu", TRUE)>>)>>))}
        \cup {Some(List(<<List(l)>>)) : l \in ItemLists}
        \cup {Some(List(<<List(<<a>>), List(<<b>>)>>)) : a, b \in ScalarItems}

\* Values of another key: no such key, or a tensor.
OtherValues == {None} \cup {Some(Tensor(d, mv)) : d \in Devices, mv \in BOOLEAN}

Batches ==
    {DictBatch(i, o) : i \in ItemsValues, o \in OtherValues}
        \cup {NotADict(Tensor("cpu", TRUE)), NotADict(List(<<Tensor("cpu", TRUE)>>))}

NextTransfer ==
    \E batch \in Batches, device \in Devices : TransferBatchToDevice(batch, device)

SpecTransfer == Init /\ [][NextTransfer]_vars

\* ------------------- SpecTraining: a scalar model or a segmentation model
\* The structures of the segmentation models.
GroundTruthIds == {<<"lung">>, <<"lung", "heart">>}

InitSegmentation ==
    /\ NoReport
    /\ ScalarLightningConstructed(ScalarConfig(FALSE, <<DEFAULT_HUE_KEY>>, << >>, TRUE))
    /\ train_subject_outputs_logger = NoLogger
    /\ val_subject_outputs_logger = NoLogger
    /\ workers = NoWorkers
    /\ transfer = NoTransfer
    /\ \E ids \in GroundTruthIds : segmentation = SegmentationLightningInit(ids)

\* Dice of one structure in one crop: NaN (ground truth and prediction both
\* empty, no foreground voxel), 0.5 and 1.0.
CropValues ==
    {[dice |-> NaNValue, voxels |-> Float(0, ScoreUnit)],
     [dice |-> Float(5, ScoreUnit), voxels |-> Float(2 * ScoreUnit, ScoreUnit)],
     [dice |-> Float(ScoreUnit, ScoreUnit), voxels |-> Float(2 * ScoreUnit, ScoreUnit)]}

\* A crop: the values of every structure.
Crop(values) ==
    [dice |-> [s \in DOMAIN values |-> values[s].dice],
     voxels |-> [s \in DOMAIN values |-> values[s].voxels]]

Crops == {Crop(values) : values \in [1..Len(segmentation.ground_truth_ids) -> CropValues]}

\* Minibatches: one crop, and a crop without any structure followed by one
\* with Dice 1.0 for every structure.
SegmentationSamples ==
    {<<c>> : c \in Crops}
        \cup {<<Crop([s \in 1..Len(segmentation.ground_truth_ids) |->
                        [dice |-> NaNValue, voxels |-> Float(0, ScoreUnit)]]),
                Crop([s \in 1..Len(segmentation.ground_truth_ids) |->
                        [dice |-> Float(ScoreUnit, ScoreUnit),
                         voxels |-> Float(2 * ScoreUnit, ScoreUnit)]])>>}

NextSegmentation ==
    \/ \E sample \in SegmentationSamples, is_training \in BOOLEAN :
            SegmentationStep(sample, is_training, MaxSteps)
    \/ \E is_training \in BOOLEAN : SegmentationEpochEnd(is_training)

InitTraining == InitScalar \/ InitSegmentation

NextTraining ==
    \/ segmentation = NoSegmentation /\ NextScalar
    \/ segmentation # NoSegmentation /\ NextSegmentation

SpecTraining == InitTraining /\ [][NextTraining]_vars

\* ------------------- SpecStart: a ScalarLightning object from its creation
\* A binary classification model and a sequence model with two target
\* positions.
StartConfigs ==
    {ScalarConfig(FALSE, <<DEFAULT_HUE_KEY>>, << >>, TRUE),
     ScalarConfig(TRUE, <<DEFAULT_HUE_KEY>>, <<1, 2>>, TRUE)}

InitStart ==
    /\ NoReport
    /\ \E config \in StartConfigs : ScalarLightningConstructed(config)
    /\ train_subject_outputs_logger = NoLogger
    /\ val_subject_outputs_logger = NoLogger
    /\ NoOthers

NextStart ==
    \/ OnTrainStart(0)
    \/ NextScalar

SpecStart == InitStart /\ [][NextStart]_vars

\* ------------------------------------------------------ claims C1 - C3
Reported(op) == pc = "reported" /\ call.op = op

\* The rows of a file that carry the hue of the call.
RowsOfHue(csv) == SelectSeq(csv, LAMBDA r : r.hue = call.hue)

\* The rows of the hue have unique subject ids and labels in {0, 1}.
WellFormed(csv) ==
    /\ is_unique(Column(RowsOfHue(csv), "subject"))
    /\ Range(Column(RowsOfHue(csv), "label")) \subseteq {0, 1}

\* The row of the test file a table row was made from.
Base(x) == Row(x.hue, x.subject, x.model_output, x.label, x.epoch, x.data_split)

InTable(table, r) == \E i \in 1..Len(table) : Base(table[i]) = r

Tables == <<ret.results.true_positives, ret.results.false_positives,
            ret.results.true_negatives, ret.results.false_negatives>>

C2_IllFormedLabelRaises ==
    (/\ Reported("get_correct_and_misclassified_examples")
     /\ \E i \in 1..Len(RowsOfHue(test_csv)) :
            RowsOfHue(test_csv)[i].label \notin {0, 1})
    => ret.error # NoError

\* C3: a test row is predicted 1 exactly when its model output is >= the
\* threshold: label 1 and score >= threshold is a true positive, label 0 and
\* score >= threshold a false positive, label 1 below the threshold a false
\* negative and label 0 below it a true negative.
C3_ClosedLowerBound ==
    (Reported("get_correct_and_misclassified_examples") /\ ret.error = NoError)
    => LET t == ret.optimal_threshold[1]
           rows == RowsOfHue(test_csv)
       IN  \A i \in 1..Len(rows) :
            LET r == rows[i] IN
            /\ InTable(ret.results.true_positives, r)
                <=> (r.model_output >= t /\ r.label = 1)
            /\ InTable(ret.results.false_positives, r)
                <=> (r.model_output >= t /\ r.label = 0)
            /\ InTable(ret.results.false_negatives, r)
                <=> (r.model_output < t /\ r.label = 1)
            /\ InTable(ret.results.true_negatives, r)
                <=> (r.model_output < t /\ r.label = 0)

\* C3 witness: a row whose score equals the threshold is a true positive and a
\* row below the threshold is a true negative.
C3_Witness ==
    /\ Reported("get_correct_and_misclassified_examples")
    /\ ret.error = NoError
    /\ \E i \in 1..Len(ret.results.true_positives) :
        ret.results.true_positives[i].model_output = ret.optimal_threshold[1]
    /\ ret.results.true_negatives # << >>

\* ----------------------------------------------------- claims C4 - C8
FloatEq(v, n, d) == v.kind = "float" /\ v.num * d = n * v.den

\* The ROC curve of the validation rows of the hue.
ValCurve ==
    roc_curve(Column(RowsOfHue(val_csv), "label"),
              Column(RowsOfHue(val_csv), "model_output"))

\* Index i of the curve maximizes tpr - fpr and is the first to do so.
FirstYoudenMaximum(curve, i) ==
    /\ \A j \in 1..Len(curve.thresholds) : Youden(curve, j) <= Youden(curve, i)
    /\ \A j \in 1..(i - 1) : Youden(curve, j) < Youden(curve, i)

DerivesThreshold ==
    \/ Reported("get_correct_and_misclassified_examples")
    \/ /\ Reported("get_metric")
       /\ call.metric = OptimalThreshold
       /\ call.optimal_threshold = None

\* C4: when no threshold is supplied and the validation split holds both
\* classes, the threshold that get_metric returns and the one that
\* get_correct_and_misclassified_examples applies is the ROC threshold at the
\* first index, in the curve's strictly decreasing threshold order, that
\* maximizes tpr - fpr.
C4_ThresholdAtFirstYoudenMaximum ==
    (/\ DerivesThreshold
     /\ ret.error = NoError
     /\ ValCurve.positives > 0 /\ ValCurve.negatives > 0)
    => /\ \A i, j \in 1..Len(ValCurve.thresholds) :
            i < j => ValCurve.thresholds[i] > ValCurve.thresholds[j]
       /\ \E i \in 1..Len(ValCurve.thresholds) :
            /\ FirstYoudenMaximum(ValCurve, i)
            /\ ret.optimal_threshold = Some(ValCurve.thresholds[i])
            /\ Reported("get_metric")
                => FloatEq(ret.value, ValCurve.thresholds[i], ScoreUnit)

\* C4 witness: get_metric returned the threshold of a curve on which two
\* indices reach the same positive maximum of tpr - fpr.
C4_Witness ==
    /\ Reported("get_metric")
    /\ ret.error = NoError
    /\ ValCurve.positives > 0 /\ ValCurve.negatives > 0
    /\ \E i, j \in 1..Len(ValCurve.thresholds) :
        /\ i < j
        /\ FirstYoudenMaximum(ValCurve, i)
        /\ Youden(ValCurve, j) = Youden(ValCurve, i)
        /\ Youden(ValCurve, i) > 0
        /\ ret.optimal_threshold = Some(ValCurve.thresholds[i])

\* The validation file is the whole fixture and get_metric was asked for the
\* optimal threshold without one being supplied.
FixtureThresholdAsked ==
    /\ Reported("get_metric")
    /\ call.metric = OptimalThreshold
    /\ call.optimal_threshold = None
    /\ val_csv = [i \in 1..Len(FixtureLabels) |-> FixtureRow(i, "Val")]

\* C5 as claimed: on the validation split with labels [1]*6 + [0]*6 and outputs
\* [0.0, 0.2, 0.4, 0.6, 0.8, 1.0] * 2, get_metric(OptimalThreshold) returns 0.6.
C5_FixtureThresholdIsSixTenths ==
    FixtureThresholdAsked => FloatEq(ret.value, 6, 10)

\* C5 amended: on that validation split tpr - fpr is 0 at every point of the
\* curve, so the first index wins and get_metric returns the curve's first
\* threshold, which is larger than every validation output (larger than 1.0).
C5_FixtureThresholdAboveEveryOutput ==
    FixtureThresholdAsked
    => /\ ret.error = NoError
       /\ \A i \in 1..Len(ValCurve.thresholds) : Youden(ValCurve, i) = 0
       /\ FloatEq(ret.value, ValCurve.thresholds[1], ScoreUnit)
       /\ \A i \in 1..Len(val_csv) :
            ret.value.num * ScoreUnit > val_csv[i].model_output * ret.value.den

\* C5 witness: the call on the whole fixture returned.
C5_Witness == FixtureThresholdAsked /\ ret.error = NoError

\* C6: every threshold the caller supplies is the one get_metric uses, and
\* OptimalThreshold returns it unchanged (validation rows present).
C6_SuppliedThresholdIsUsed ==
    (/\ Reported("get_metric")
     /\ call.optimal_threshold # None
     /\ RowsOfHue(val_csv) # << >>)
    => /\ ret.error = NoError
       /\ ret.optimal_threshold = call.optimal_threshold
       /\ call.metric = OptimalThreshold
            => FloatEq(ret.value, call.optimal_threshold[1], ScoreUnit)

\* C7: get_metric with Accuracy, FalsePositiveRate or FalseNegativeRate
\* returns a value and does not raise (both splits hold rows).
C7_RatesNeverRaise ==
    (/\ Reported("get_metric")
     /\ call.metric \in {Accuracy, FalsePositiveRate, FalseNegativeRate}
     /\ RowsOfHue(val_csv) # << >>
     /\ RowsOfHue(test_csv) # << >>)
    => ret.error = NoError /\ ret.value.kind = "float"

\* C8: with fewer than two distinct labels in the test split, get_metric
\* returns NaN for AUC_ROC and AUC_PR and does not raise (validation rows
\* present).
C8_OneClassGivesNaN ==
    (/\ Reported("get_metric")
     /\ call.metric \in {AUC_ROC, AUC_PR}
     /\ Cardinality(Range(Column(RowsOfHue(test_csv), "label"))) < 2
     /\ RowsOfHue(val_csv) # << >>)
    => ret.error = NoError /\ ret.value = NaNValue

\* ---------------------------------------------------- claims C9 - C10
\* Two rows of the hue of the call share a subject id.
DuplicateSubject(csv) ==
    \E i, j \in 1..Len(RowsOfHue(csv)) :
        i # j /\ RowsOfHue(csv)[i].subject = RowsOfHue(csv)[j].subject

\* Two rows of the hue share a subject id within one (epoch, data split) group.
DuplicateSubjectInGroup(csv) ==
    \E i, j \in 1..Len(RowsOfHue(csv)) :
        /\ i # j
        /\ RowsOfHue(csv)[i].subject = RowsOfHue(csv)[j].subject
        /\ RowsOfHue(csv)[i].epoch = RowsOfHue(csv)[j].epoch
        /\ RowsOfHue(csv)[i].data_split = RowsOfHue(csv)[j].data_split

FileRead == IF call.file = "val" THEN val_csv ELSE test_csv

\* C9: a file whose rows of the hue repeat a subject id makes
\* get_labels_and_predictions raise 'Subject IDs should be unique', and
\* get_correct_and_misclassified_examples raise whether the repeat is in the
\* validation or in the test file (with that error as soon as the file is
\* read, the test file being read after the validation rows gave a
\* threshold); a subject id that repeats only across hues raises nothing.
C9_DuplicateSubjectRaises ==
    /\ Reported("get_labels_and_predictions")
        => (ret.error = DuplicateSubjects <=> DuplicateSubject(FileRead))
    /\ Reported("get_correct_and_misclassified_examples")
        => /\ DuplicateSubject(val_csv) => ret.error = DuplicateSubjects
           /\ DuplicateSubject(test_csv) => ret.error # NoError
           /\ (DuplicateSubject(test_csv) /\ RowsOfHue(val_csv) # << >>)
                => ret.error = DuplicateSubjects
           /\ (~DuplicateSubject(val_csv) /\ ~DuplicateSubject(test_csv))
                => ret.error # DuplicateSubjects

\* C9 witness: get_correct_and_misclassified_examples raised on a duplicate
\* that is in the test file only, while a subject id of the validation file
\* repeats across hues.
C9_Witness ==
    /\ Reported("get_correct_and_misclassified_examples")
    /\ ret.error = DuplicateSubjects
    /\ ~DuplicateSubject(val_csv)
    /\ DuplicateSubject(test_csv)

\* C10 as claimed: the read raises exactly when two rows of the hue share a
\* subject id within the same (epoch, data split) group.
C10_RaisesIffDuplicateInGroup ==
    Reported("get_labels_and_predictions")
    => (ret.error = DuplicateSubjects <=> DuplicateSubjectInGroup(FileRead))

\* C10 amended: the read raises exactly when two rows of the hue share a
\* subject id, whatever their epochs: the same subject once in each of two
\* epochs is rejected.
C10_RaisesIffDuplicateInFile ==
    Reported("get_labels_and_predictions")
    => /\ ret.error # NoError <=> DuplicateSubject(FileRead)
       /\ (DuplicateSubject(FileRead) /\ ~DuplicateSubjectInGroup(FileRead))
            => ret.error = DuplicateSubjects

\* C10 witness: a file that holds one subject once in each of two epochs, and
\* the read of it raised.
C10_Witness ==
    /\ Reported("get_labels_and_predictions")
    /\ DuplicateSubject(FileRead)
    /\ ~DuplicateSubjectInGroup(FileRead)
    /\ ret.error = DuplicateSubjects


\* ---------------------------------------------------- claims C11 - C14
Categories ==
    {"true_positives", "false_positives", "true_negatives", "false_negatives"}

\* The highest scores come first in the tables of predicted positives.
DescendingCategories == {"true_positives", "false_positives"}

Ranked == Reported("get_k_best_and_worst_performing") /\ ret.error = NoError

\* The four categories of the test file, before they are ranked.
Partition ==
    get_correct_and_misclassified_examples(val_csv, test_csv, call.hue).results

\* Row x stands before row y, or level with it, in a table of category c.
NotAfter(c, x, y) ==
    IF c \in DescendingCategories THEN x.model_output >= y.model_output
    ELSE x.model_output <= y.model_output

\* Table a holds rows of table b only, in the order they have in b.
SubTable(a, b) == SelectSeq(b, LAMBDA x : x \in Range(a)) = a

\* C11: for k >= 0, every table returned by get_k_best_and_worst_performing
\* holds the first k rows of its category sorted by model output: its rows
\* are rows of the category, they stand in descending order of score for
\* true and false positives and in ascending order for true and false
\* negatives, no row left out stands strictly before a row kept, and k rows
\* are kept when the category has that many.
C11_FirstKRowsSortedByScore ==
    (Ranked /\ call.k >= 0) =>
        \A c \in Categories :
            LET t == ret.results[c]
                all == Partition[c]
            IN  /\ Range(t) \subseteq Range(all)
                /\ \A i, j \in 1..Len(t) : i < j => NotAfter(c, t[i], t[j])
                /\ \A x \in Range(all) \ Range(t) :
                        \A i \in 1..Len(t) : NotAfter(c, t[i], x)
                /\ Len(t) = IF call.k < Len(all) THEN call.k ELSE Len(all)

\* Three true positives of two or more scores, of which the best two are
\* kept in descending order.
C11_Witness ==
    /\ Ranked
    /\ call.k = 2
    /\ Len(Partition.true_positives) = 3
    /\ Len(ret.results.true_positives) = 2
    /\ ret.results.true_positives[1].model_output
            > ret.results.true_positives[2].model_output

\* C12: for every k <= 0 get_k_best_and_worst_performing returns four empty
\* tables and does not raise.
C12_NonPositiveKGivesEmptyTables ==
    (Ranked /\ call.k <= 0) => ret.results = NoResults

\* C13: ranking is idempotent and monotonic in k: ranking the returned
\* tables again with the same k gives the same tables, and for k1 < k2 each
\* table returned for k1 holds rows of the table returned for k2 only, in
\* the same relative order.
C13_RankIdempotentAndMonotonic ==
    Ranked =>
        /\ sorted(ret.results, call.k, call.ties) = ret.results
        /\ \A k2 \in RankKs :
                call.k < k2 =>
                    \A c \in Categories :
                        SubTable(ret.results[c],
                                 sorted(Partition, k2, call.ties)[c])

\* C14: for every k >= 0 each returned table holds exactly min(k, n) rows of
\* its category of n rows, and the whole category when k exceeds n.
C14_MinOfKAndCategorySize ==
    (Ranked /\ call.k >= 0) =>
        \A c \in Categories :
            LET n == Len(Partition[c])
            IN  /\ Len(ret.results[c]) = (IF call.k < n THEN call.k ELSE n)
                /\ \A i \in 1..Len(ret.results[c]) :
                        \E j \in 1..n : Partition[c][j] = ret.results[c][i]
                /\ call.k > n => Range(ret.results[c]) = Range(Partition[c])

\* k exceeds the two false negatives there are, and both are returned.
C14_Witness ==
    /\ Ranked
    /\ Len(Partition.false_negatives) = 2
    /\ call.k > 2
    /\ Len(ret.results.false_negatives) = 2


\* ---------------------------------------------------- claims C15 - C17
\* The rows of the table that a lookup with the channels cs is about: those
\* of the subject asked for, in one of the channels when channels are
\* configured and the table has the channel column.
SelectedRows(cs) ==
    SelectSeq(dataset_df.rows,
              LAMBDA r : /\ r.subject = call.subject_id
                         /\ (cs # << >> /\ dataset_df.channel_column)
                                => r.channel \in Range(cs))

\* C15: get_image_filepath_from_subject_id returns one path
\* dataset_dir/filepath for every row of the subject (of the configured
\* image channels, when there are any and the table has the channel column),
\* in table order, and an empty list without raising for a subject that is
\* not in the table.
C15_OnePathPerRowOfSubject ==
    Reported("get_image_filepath_from_subject_id") =>
        LET rows == SelectedRows(call.config.image_channels)
        IN  /\ ret.error = NoError
            /\ ret.found = [i \in 1..Len(rows) |-> <<DatasetDir, rows[i].filePath>>]

\* The label channels that filter the table: the first one configured.
FilteringLabelChannels ==
    IF call.config.label_channels = << >> THEN << >>
    ELSE <<call.config.label_channels[1]>>

\* The distinct raw label values of the subject after channel filtering.
DistinctLabels ==
    Range(Column(SelectedRows(FilteringLabelChannels), "label"))

C17_FailedLookupDoesNotStopThePlots ==
    (/\ Reported("plot_k_best_and_worst_performing")
     /\ get_k_best_and_worst_performing(val_csv, test_csv, call.k, call.hue,
                                        call.ties).error = NoError) =>
        /\ ret.error = NoError
        /\ Len(ret.display) = Len(ret.results.false_positives)
                                + Len(ret.results.false_negatives)
                                + Len(ret.results.true_positives)
                                + Len(ret.results.true_negatives)


\* ---------------------------------------------------- claims C18 - C20
MetricComputers(is_training) ==
    IF is_training THEN train_metric_computers ELSE val_metric_computers

Prefix(is_training) == IF is_training THEN TRAIN_PREFIX ELSE VALIDATION_PREFIX

Targets == 1..Len(model.target_names)

MetricNames == Range(_get_metrics_computers(model.is_classification_model))

\* The names under which a metric of the phase can be logged: with no
\* suffix, or with the suffix of one of the targets.
NamesOf(is_training, metric) ==
    {Prefix(is_training) \o metric}
        \cup {Prefix(is_training) \o metric \o "/" \o model.target_names[t] :
                t \in Targets}

\* C18: the epoch end of a phase logs exactly one value for every (target,
\* metric) of the phase whose accumulator received an update since the
\* previous epoch end of the phase, the value computed from the inputs of
\* that accumulator; it logs nothing for the accumulators without updates;
\* it leaves every accumulator of the phase in its initial state; and no
\* value logged includes an input of an earlier epoch.
C18_EpochEndLogsUpdatedMetricsAndResets ==
    [][\A is_training \in BOOLEAN :
        TrainingOrValidationEpochEnd(is_training) =>
            LET before == MetricComputers(is_training)
                after == MetricComputers(is_training)'
                updated == {x \in Targets \X MetricNames : before[x[1]][x[2]].updates > 0}
            IN  /\ Len(logged') = Cardinality(updated)
                /\ \A metric \in MetricNames :
                    LET entries == {n \in 1..Len(logged') :
                                        logged'[n].name \in NamesOf(is_training, metric)}
                        targets == {t \in Targets : <<t, metric>> \in updated}
                    IN  /\ Cardinality(entries) = Cardinality(targets)
                        /\ \A t \in targets :
                                \E n \in entries : logged'[n].value = before[t][metric].inputs
                /\ \A t \in Targets, metric \in MetricNames : after[t][metric] = NewMetric
                /\ \A n \in 1..Len(logged') :
                        \A k \in 1..Len(logged'[n].value) :
                            logged'[n].value[k].epoch = current_epoch]_vars

\* In the second epoch of a model with two targets, the epoch end has logged
\* the metrics of the one target that had an update, with inputs of the
\* second epoch only, after the first epoch had its own updates and epoch
\* end.
C18_Witness ==
    /\ current_epoch = 1
    /\ steps = 2
    /\ Len(model.target_names) = 2
    /\ Len(logged) = Len(ClassificationMetrics)
    /\ \A n \in 1..Len(logged) :
            /\ logged[n].value # << >>
            /\ \A k \in 1..Len(logged[n].value) : logged[n].value[k].epoch = 1
    /\ \E is_training \in BOOLEAN :
            /\ MetricComputers(is_training)[1]["Accuracy05"] = NewMetric
            /\ (IF is_training THEN train_subject_outputs_logger
                ELSE val_subject_outputs_logger).file # << >>

\* C19: the name of a logged epoch metric is the phase prefix and the metric
\* name, followed by "/" and the target name exactly when the model has more
\* than one prediction target.
C19_SuffixIffSeveralTargets ==
    \A n \in 1..Len(logged) :
        IF Len(model.target_names) > 1
        THEN \E is_training \in BOOLEAN, metric \in MetricNames, t \in Targets :
                logged[n].name = Prefix(is_training) \o metric \o "/"
                                    \o model.target_names[t]
        ELSE \E is_training \in BOOLEAN, metric \in MetricNames :
                logged[n].name = Prefix(is_training) \o metric

\* The inputs that the subject has given to the metric of the target.
InputsOf(metrics, t, metric, subject) ==
    {k \in 1..Len(metrics[t][metric].inputs) :
        metrics[t][metric].inputs[k].subject = subject}

\* The records that the subject has in the logger for the target.
RecordsOf(logger, t, subject) ==
    {k \in 1..Len(logger.records) :
        /\ logger.records[k].subject = subject
        /\ logger.records[k].hue = model.target_names[t]}

\* C20: in a step, a subject without a valid label for target t gives no
\* input to the metrics of t and no record for t, and for every target for
\* which it has a valid label it gives exactly one input to every metric of
\* that target and exactly one record.
C20_InvalidLabelMasksThatTargetOnly ==
    [][\A labels \in Samples, is_training \in BOOLEAN :
        TrainingOrValidationStep(Sample(labels), is_training, MaxSteps) =>
            LET sample == Sample(labels)
                metrics == MetricComputers(is_training)'
                logger == IF is_training THEN train_subject_outputs_logger'
                          ELSE val_subject_outputs_logger'
            IN  \A n \in 1..Len(sample), t \in Targets :
                    LET expected == IF sample[n].labels[t] = NaN THEN 0 ELSE 1
                    IN  /\ \A metric \in MetricNames :
                            Cardinality(InputsOf(metrics, t, metric,
                                                 sample[n].subject)) = expected
                        /\ Cardinality(RecordsOf(logger, t, sample[n].subject))
                                = expected]_vars

\* After one training step of a model with two targets, the subject has
\* given an input and a record to the first target and nothing to the
\* second, for which it has no label.
C20_Witness ==
    /\ steps = 1
    /\ Len(model.target_names) = 2
    /\ Len(train_metric_computers[1]["Accuracy05"].inputs) = 1
    /\ train_metric_computers[2]["Accuracy05"].inputs = << >>
    /\ Len(train_subject_outputs_logger.records) = 1
    /\ train_subject_outputs_logger.records[1].hue = model.target_names[1]


\* ---------------------------------------------------- claims C21 - C30
SubjectOutputsLogger(is_training) ==
    IF is_training THEN train_subject_outputs_logger ELSE val_subject_outputs_logger

\* C21: in every step of a run, for the per-subject logger of either phase:
\* the records already in the file stay as they are, in place; the epoch end
\* of the phase appends the whole buffer to the file, in order, and leaves
\* the buffer empty; and no record is held twice by the file and the buffer
\* together, so that every record added ends up in the file exactly once.
C21_EpochEndFlushesEveryRecordOnce ==
    [][\A is_training \in BOOLEAN :
        LET before == SubjectOutputsLogger(is_training)
            after == SubjectOutputsLogger(is_training)'
            held == after.file \o after.records
        IN  /\ Len(before.file) <= Len(after.file)
            /\ SubSeq(after.file, 1, Len(before.file)) = before.file
            /\ TrainingOrValidationEpochEnd(is_training) =>
                    /\ after.records = << >>
                    /\ after.file = before.file \o before.records
            /\ \A i, j \in 1..Len(held) : i # j => held[i] # held[j]]_vars

\* After the epoch ends of two epochs the training file holds records of
\* both epochs, those of the first epoch first, and the buffer is empty.
C21_Witness ==
    /\ current_epoch = 1
    /\ train_subject_outputs_logger.records = << >>
    /\ Len(train_subject_outputs_logger.file) >= 2
    /\ train_subject_outputs_logger.file[1].epoch = 0
    /\ train_subject_outputs_logger.file[Len(train_subject_outputs_logger.file)].epoch = 1

\* The logger of a phase in the worker process of a rank.
WorkerLogger(r, is_training) ==
    IF is_training THEN workers[r].train_subject_outputs_logger
    ELSE workers[r].val_subject_outputs_logger

\* C22: distinct ranks have distinct file names, and no two loggers of the
\* run, of different worker processes or of the two phases of one worker
\* process, write to the same file.
C22_NoFileSharedByTwoLoggers ==
    /\ \A r1, r2 \in Ranks :
            r1 # r2 => get_subject_output_file_per_rank(r1)
                            # get_subject_output_file_per_rank(r2)
    /\ \A r1, r2 \in Ranks, p1, p2 \in BOOLEAN :
            (/\ workers[r1].started
             /\ workers[r2].started
             /\ <<r1, p1>> # <<r2, p2>>)
            => WorkerLogger(r1, p1).csv_path # WorkerLogger(r2, p2).csv_path

\* Every worker process has written its training file and its validation
\* file.
C22_Witness ==
    \A r \in Ranks, is_training \in BOOLEAN :
        /\ workers[r].started
        /\ WorkerLogger(r, is_training).file # << >>

\* The tensors and items in a value.
RECURSIVE Leaves(_)
Leaves(value) ==
    IF value.type = "list"
    THEN UNION {Leaves(value.elems[n]) : n \in 1..Len(value.elems)}
    ELSE {value}

\* The tensors and items of a batch, under "items" and under the other key.
LeavesOfBatch(batch) ==
    UNION {Leaves((batch.items \o batch.other)[n]) :
            n \in 1..Len(batch.items \o batch.other)}

\* A dictionary whose "items" entry is a list of lists of ScalarItem.
SequenceStyle(batch) ==
    /\ batch.type = "dict"
    /\ batch.items # None
    /\ batch.items[1].type = "list"
    /\ batch.items[1].elems # << >>
    /\ \A n \in 1..Len(batch.items[1].elems) :
            /\ batch.items[1].elems[n].type = "list"
            /\ batch.items[1].elems[n].elems # << >>
            /\ \A k \in 1..Len(batch.items[1].elems[n].elems) :
                    batch.items[1].elems[n].elems[k].type = "ScalarItem"

\* C23: for a sequence-style batch, the call fails when a tensor or item of
\* the batch, under "items" or under another key, cannot go to the device,
\* and otherwise it returns a batch all of whose tensors and items, under
\* "items" and under every other key, are on the device.
C23_EveryLeafOnTheDevice ==
    (transfer.called /\ SequenceStyle(transfer.batch))
    => IF \E leaf \in LeavesOfBatch(transfer.batch) : Stuck(leaf, transfer.device)
       THEN raised # NoError
       ELSE /\ raised = NoError
            /\ \A leaf \in LeavesOfBatch(transfer.returned) :
                    leaf.device = transfer.device

\* The batch is not keyed as expected: not a dictionary, a dictionary
\* without the key "items", or one whose "items" list is empty.
Malformed(batch) ==
    \/ batch.type # "dict"
    \/ batch.items = None
    \/ batch.items = Some(List(<< >>))

\* C24: a batch that is not a dictionary, a dictionary without the key
\* "items" and a dictionary with an empty "items" list are all rejected with
\* the error of a malformed batch.
C24_MalformedBatchRejected ==
    (transfer.called /\ Malformed(transfer.batch)) => raised = NotADictError

\* The Dice and voxel count accumulators and the diagnostics of a phase.
SegmentationPhase(self, is_training) ==
    IF is_training THEN <<self.train_dice, self.train_voxels, self.train_diagnostics>>
    ELSE <<self.val_dice, self.val_voxels, self.val_diagnostics>>

\* C25: the epoch end of a phase logs for every structure, under the name of
\* the structure, the sum of the Dice values that are not NaN divided by
\* their number, taken over the values that the structure received in the
\* phase since its accumulator was last reset; it logs NaN when none of the
\* values is a number; and it resets the accumulator.
C25_DiceIsMeanOfValuesThatAreNotNaN ==
    [][\A is_training \in BOOLEAN :
        (segmentation # NoSegmentation /\ SegmentationEpochEnd(is_training)) =>
            \A s \in 1..Len(segmentation.ground_truth_ids) :
                LET values == SegmentationPhase(segmentation, is_training)[1].values[s]
                    numbers == {n \in 1..Len(values) : values[n] # NaNValue}
                    entry == segmentation'.logged[s]
                IN  /\ entry.name = Prefix(is_training) \o "Dice/"
                                        \o segmentation.ground_truth_ids[s]
                    /\ IF numbers = {} THEN entry.value = NaNValue
                       ELSE /\ entry.value.kind = "float"
                            /\ entry.value.num * Cardinality(numbers) * ScoreUnit
                                    = SumNum(values) * entry.value.den
                    /\ SegmentationPhase(segmentation', is_training)[1].values[s]
                            = << >>]_vars

\* The training epoch end after one minibatch of two crops (twice the voxel
\* count 2 of one crop in the mean 1.0 of the voxel counts 0 and 2) has
\* logged Dice 1.0 for the first structure: the mean of NaN and 1.0 without
\* the NaN.
C25_Witness ==
    /\ segmentation # NoSegmentation
    /\ steps = 1
    /\ Len(segmentation.train_diagnostics) = 1
    /\ segmentation.train_dice.values[1] = << >>
    /\ segmentation.logged # << >>
    /\ segmentation.logged[1].name = TRAIN_PREFIX \o "Dice/lung"
    /\ segmentation.logged[1].value = Float(ScoreUnit, ScoreUnit)
    /\ segmentation.logged[Len(segmentation.ground_truth_ids) + 1].value
            = Float(2 * ScoreUnit, 2 * ScoreUnit)

\* C26: a step and an epoch end of one phase leave the metric computers and
\* the per-subject logger of the other phase of a ScalarLightning object as
\* they are, and the Dice and voxel count accumulators and the diagnostics
\* of the other phase of a SegmentationLightning object as they are.
C26_PhasesAreIsolated ==
    [][\A is_training \in BOOLEAN :
        /\ (/\ segmentation = NoSegmentation
            /\ \/ \E labels \in Samples :
                    TrainingOrValidationStep(Sample(labels), is_training, MaxSteps)
               \/ TrainingOrValidationEpochEnd(is_training))
           => /\ MetricComputers(~is_training)' = MetricComputers(~is_training)
              /\ SubjectOutputsLogger(~is_training)' = SubjectOutputsLogger(~is_training)
        /\ (/\ segmentation # NoSegmentation
            /\ \/ \E sample \in SegmentationSamples :
                    SegmentationStep(sample, is_training, MaxSteps)
               \/ SegmentationEpochEnd(is_training))
           => SegmentationPhase(segmentation', ~is_training)
                = SegmentationPhase(segmentation, ~is_training)]_vars

\* After a training step and a validation step of a segmentation model and
\* the validation epoch end, the training accumulators hold the values of
\* the training step and the validation accumulators are empty.
C26_Witness ==
    /\ segmentation # NoSegmentation
    /\ steps = 2
    /\ Len(segmentation.train_diagnostics) = 1
    /\ Len(segmentation.val_diagnostics) = 1
    /\ segmentation.train_dice.values[1] # << >>
    /\ segmentation.val_dice.values[1] = << >>
    /\ segmentation.logged # << >>
    /\ segmentation.logged[1].name = VALIDATION_PREFIX \o "Dice/lung"

\* C27: the names logged by one epoch end are pairwise distinct.
C27_LoggedNamesAreDistinct ==
    \A i, j \in 1..Len(logged) : i # j => logged[i].name # logged[j].name

\* C28: whenever get_correct_and_misclassified_examples succeeds on the
\* files and the hue, get_metric(OptimalThreshold) without a supplied
\* threshold succeeds on them too and returns the threshold that
\* get_correct_and_misclassified_examples applies.
C28_ThresholdsAgree ==
    (/\ Reported("get_metric")
     /\ call.metric = OptimalThreshold
     /\ call.optimal_threshold = None
     /\ get_correct_and_misclassified_examples(val_csv, test_csv, call.hue).error
            = NoError)
    => /\ ret.error = NoError
       /\ ret.optimal_threshold
            = get_correct_and_misclassified_examples(val_csv, test_csv,
                                                     call.hue).optimal_threshold

\* C29: a threshold derived from a validation split with rows is the model
\* output of one of its rows.
C29_ThresholdIsAValidationOutput ==
    (/\ DerivesThreshold
     /\ ret.error = NoError
     /\ RowsOfHue(val_csv) # << >>)
    => \E i \in 1..Len(RowsOfHue(val_csv)) :
            ret.optimal_threshold = Some(RowsOfHue(val_csv)[i].model_output)

\* C30: a step or an epoch end of a phase whose per-subject logger
\* on_train_start has not created yet fails, adds no record, flushes
\* nothing, and leaves the metric computers of the phase as they were.
C30_NothingHappensBeforeOnTrainStart ==
    [][\A is_training \in BOOLEAN :
        (/\ SubjectOutputsLogger(is_training) = NoLogger
         /\ \/ \E labels \in Samples :
                    TrainingOrValidationStep(Sample(labels), is_training, MaxSteps)
            \/ TrainingOrValidationEpochEnd(is_training))
        => /\ raised' # NoError
           /\ SubjectOutputsLogger(is_training)' = NoLogger
           /\ MetricComputers(is_training)' = MetricComputers(is_training)]_vars

=============================================================================
